---- MODULE Spec2Model ----
(***************************************************************************)
(* Astro Scheduler (ASSIGNMENT_2): the ScheduleManager singleton, its      *)
(* conflict validator, the Task entity and the time utilities, as a state  *)
(* machine.  A time or a description is the sequence of its characters, so *)
(* that parsing, trimming and lower-casing are computed, not assumed.      *)
(***************************************************************************)
EXTENDS Integers, Sequences, FiniteSets, TLC

(* ------------------------------ bounds --------------------------------- *)
\* stored tasks are capped at MaxTasks (the Map itself is unbounded)
MaxTasks == 2
\* the time inputs are the first NumSlots + 1 points of TimeGrid
NumSlots == 3
\* readings of the system clock (new Date()) are drawn from 1..MaxClock
MaxClock == 1
\* TaskFactory's counter is driven up to MaxCounter
MaxCounter == 2
\* the system clock is read at the ticks 1..MaxTicks, two ticks to the second
MaxTicks == 3
\* TaskFactory.createTask returns at most MaxMade tasks
MaxMade == 2
\* getInstance is called at most MaxHandles times
MaxHandles == 3
\* a learning module gets at most MaxLessons lessons
MaxLessons == 2
\* the assessment of a learning module is taken at most MaxAttempt times
MaxAttempt == 4
\* a learning module changes its state at most MaxHistory - 1 times
MaxHistory == 5
\* the activity log of the login facade takes at most MaxLogs entries
MaxLogs == 6
\* an imported JSON array holds at most MaxImport records
MaxImport == 2
\* observers attached at the same time
MaxObservers == 2

(* ---------------------------- strings ---------------------------------- *)
\* A string of the program is an atom of the model; Chars gives its characters,
\* and every string operation of the code is computed on them.
Chars ==
  ("09:00" :> <<"0", "9", ":", "0", "0">>) @@
  ("09:30" :> <<"0", "9", ":", "3", "0">>) @@
  ("10:00" :> <<"1", "0", ":", "0", "0">>) @@
  ("10:30" :> <<"1", "0", ":", "3", "0">>) @@
  ("11:00" :> <<"1", "1", ":", "0", "0">>) @@
  ("11:30" :> <<"1", "1", ":", "3", "0">>) @@
  ("9:00" :> <<"9", ":", "0", "0">>) @@
  ("A" :> <<"A">>) @@ ("a" :> <<"a">>) @@ ("B" :> <<"B">>) @@
  (" A" :> <<" ", "A">>) @@
  (" " :> <<" ">>) @@ ("" :> <<>>)

DigitSet == {"0", "1", "2", "3", "4", "5", "6", "7", "8", "9"}

IsDigit(c) == c \in DigitSet

DigitVal(c) ==
  CASE c = "0" -> 0 [] c = "1" -> 1 [] c = "2" -> 2 [] c = "3" -> 3
    [] c = "4" -> 4 [] c = "5" -> 5 [] c = "6" -> 6 [] c = "7" -> 7
    [] c = "8" -> 8 [] c = "9" -> 9

\* the time inputs: the first NumSlots + 1 points of the grid, and one text
\* the format check must refuse
TimeGrid == <<"09:00", "09:30", "10:00", "10:30", "11:00", "11:30">>
GridMinute == <<540, 570, 600, 630, 660, 690>>

GoodTimes == { TimeGrid[k] : k \in 1..(NumSlots + 1) }
BadTimes == {"9:00"}
Times == GoodTimes \cup BadTimes

\* the minute of the day a grid time stands for
MinuteOf(t) == GridMinute[CHOOSE k \in 1..Len(TimeGrid) : TimeGrid[k] = t]

(* --------------------------- TimeUtils --------------------------------- *)
\* /^([01]\d|2[0-3]):([0-5]\d)$/
TIME_REGEX(time) ==
  LET s == Chars[time]
  IN /\ Len(s) = 5
     /\ \/ s[1] \in {"0", "1"} /\ IsDigit(s[2])
        \/ s[1] = "2" /\ s[2] \in {"0", "1", "2", "3"}
     /\ s[3] = ":"
     /\ s[4] \in {"0", "1", "2", "3", "4", "5"}
     /\ IsDigit(s[5])

\* the position of the first colon at or after position i, Len(s) + 1 if none
RECURSIVE ColonFrom(_, _)
ColonFrom(s, i) ==
  IF i > Len(s) \/ s[i] = ":" THEN i ELSE ColonFrom(s, i + 1)

\* time.split(':'): the first part, and the second part (undefined, which
\* parseInt reads as NaN like the empty text, when there is no colon)
HourStr(s) == SubSeq(s, 1, ColonFrom(s, 1) - 1)

MinuteStr(s) ==
  LET c1 == ColonFrom(s, 1)
  IN IF c1 > Len(s) THEN <<>> ELSE SubSeq(s, c1 + 1, ColonFrom(s, c1 + 1) - 1)

\* parseInt(str, 10) on text without sign or blanks: the value of the longest
\* prefix of digits, NaN when that prefix is empty
RECURSIVE ParseDigits(_, _, _)
ParseDigits(s, i, acc) ==
  IF i > Len(s) \/ ~IsDigit(s[i]) THEN acc
  ELSE ParseDigits(s, i + 1, 10 * acc + DigitVal(s[i]))

IsNaN(s) == s = <<>> \/ ~IsDigit(s[1])

parseInt(s) == ParseDigits(s, 1, 0)

\* timeToMinutes throws InvalidTimeFormatError when a part does not parse
timeToMinutesThrows(time) ==
  IsNaN(HourStr(Chars[time])) \/ IsNaN(MinuteStr(Chars[time]))

timeToMinutes(time) ==
  parseInt(HourStr(Chars[time])) * 60 + parseInt(MinuteStr(Chars[time]))

\* The format test and timeToMinutes are pure functions of the text: each is
\* computed once per string of the model and looked up afterwards.
FormatOk == [t \in DOMAIN Chars |-> TIME_REGEX(t)]

Minutes == [t \in DOMAIN Chars |-> timeToMinutes(t)]

validateTimeFormatThrows(time) == ~FormatOk[time]

\* mutant: only inverted bounds are refused, equal bounds pass
validateTimeRangeThrows_allowsEqual(startTime, endTime) ==
  LET startMinutes == Minutes[startTime]
      endMinutes == Minutes[endTime]
  IN startMinutes > endMinutes

validateTimeRangeThrows(startTime, endTime) ==
  LET startMinutes == Minutes[startTime]
      endMinutes == Minutes[endTime]
  IN startMinutes >= endMinutes

compareTimeStrings(time1, time2) == Minutes[time1] - Minutes[time2]

\* mutant: only asks whether the first range starts inside the second
doTimeRangesOverlap_startInside(start1, end1, start2, end2) ==
  LET s1 == Minutes[start1]
      s2 == Minutes[start2]
      e2 == Minutes[end2]
  IN s2 <= s1 /\ s1 < e2

\* mutant: closed intervals, a shared end point counts as an overlap
doTimeRangesOverlap_closed(start1, end1, start2, end2) ==
  LET s1 == Minutes[start1]
      e1 == Minutes[end1]
      s2 == Minutes[start2]
      e2 == Minutes[end2]
  IN s1 <= e2 /\ s2 <= e1

\* mutant: only the first of the two comparisons is made
doTimeRangesOverlap_oneSided(start1, end1, start2, end2) ==
  LET s1 == Minutes[start1]
      e2 == Minutes[end2]
  IN s1 < e2

doTimeRangesOverlap(start1, end1, start2, end2) ==
  LET s1 == Minutes[start1]
      e1 == Minutes[end1]
      s2 == Minutes[start2]
      e2 == Minutes[end2]
  IN s1 < e2 /\ s2 < e1

(* ------------------------------ Task ----------------------------------- *)
\* updatedAt of a task that was never stamped (updatedAt?: Date)
UndefinedDate == 0

\* what new Date(x) is when x is no date (Invalid Date): toISOString throws
InvalidDate == 0 - 1

Clock == 1..MaxClock

IDs == {"T1", "T2", "T3"}

TaskPriority == {"Low", "High"}

\* String.prototype.toLowerCase over the alphabet of the descriptions
LowerChar(c) == IF c = "A" THEN "a" ELSE IF c = "B" THEN "b" ELSE c

toLowerCase(d) == [i \in 1..Len(Chars[d]) |-> LowerChar(Chars[d][i])]

\* String.prototype.trim: blanks removed at both ends
RECURSIVE TrimLeft(_)
TrimLeft(s) == IF s # <<>> /\ Head(s) = " " THEN TrimLeft(Tail(s)) ELSE s

RECURSIVE TrimRight(_)
TrimRight(s) ==
  IF s # <<>> /\ s[Len(s)] = " " THEN TrimRight(SubSeq(s, 1, Len(s) - 1)) ELSE s

trim(d) == TrimRight(TrimLeft(Chars[d]))

\* new Task(id, description, startTime, endTime, priority): completed is
\* false, createdAt is the clock reading, updatedAt is not set
Task(id, description, startTime, endTime, priority, now) ==
  [ id |-> id, description |-> description, startTime |-> startTime,
    endTime |-> endTime, priority |-> priority, completed |-> FALSE,
    createdAt |-> now, updatedAt |-> UndefinedDate ]

\* mutant: the "copy" is the original object itself
clone_sameObject(t) == [fresh |-> FALSE, value |-> t]

\* clone() builds a new object: the copy shares nothing with the original
clone(t) == [fresh |-> TRUE, value |-> t]

\* Task.update: a changeset is a record that has exactly the fields it sets
Field(updates, t, f) == IF f \in DOMAIN updates THEN updates[f] ELSE t[f]

\* mutant: an update makes the task pending again
update_resetsCompleted(t, updates, now) ==
  [ id |-> t.id,
    description |-> Field(updates, t, "description"),
    startTime |-> Field(updates, t, "startTime"),
    endTime |-> Field(updates, t, "endTime"),
    priority |-> Field(updates, t, "priority"),
    completed |-> FALSE,
    createdAt |-> t.createdAt,
    updatedAt |-> now ]

update(t, updates, now) ==
  [ id |-> t.id,
    description |-> Field(updates, t, "description"),
    startTime |-> Field(updates, t, "startTime"),
    endTime |-> Field(updates, t, "endTime"),
    priority |-> Field(updates, t, "priority"),
    completed |-> Field(updates, t, "completed"),
    createdAt |-> t.createdAt,
    updatedAt |-> now ]

\* mutant: the flag is flipped
markCompleted_toggle(t, now) == [t EXCEPT !.completed = ~t.completed, !.updatedAt = now]

markCompleted(t, now) == [t EXCEPT !.completed = TRUE, !.updatedAt = now]

\* toJSON calls createdAt.toISOString(), which throws on an Invalid Date
toJSONThrows(t) == t.createdAt = InvalidDate \/ t.updatedAt = InvalidDate

\* Date.prototype.toISOString: IsoText + d stands for the ISO text of instant d
IsoText == 100

toISOString(d) == IsoText + d

\* the null of JSON
JsonNull == 0 - 2

\* split(':') and parseInt, as in timeToMinutes
getDurationInMinutes(t) == Minutes[t.endTime] - Minutes[t.startTime]

\* Task.toJSON, for a task whose dates are valid
toJSON(t) ==
  [ id |-> t.id, description |-> t.description,
    startTime |-> t.startTime, endTime |-> t.endTime,
    priority |-> t.priority, completed |-> t.completed,
    createdAt |-> toISOString(t.createdAt),
    updatedAt |-> IF t.updatedAt # UndefinedDate
                    THEN toISOString(t.updatedAt) ELSE JsonNull,
    durationMinutes |-> getDurationInMinutes(t) ]

(* ------------------------ ValidationService ---------------------------- *)
NoError == "none"

\* the error validateTask throws, NoError when it returns
validateTask(t) ==
  IF t.description = "" \/ trim(t.description) = <<>>
    THEN "InvalidTaskDescriptionError"
  ELSE IF validateTimeFormatThrows(t.startTime) \/ validateTimeFormatThrows(t.endTime)
    THEN "InvalidTimeFormatError"
  ELSE IF validateTimeRangeThrows(t.startTime, t.endTime)
    THEN "InvalidTimeRangeError"
  ELSE NoError

\* mutant: keeps scanning and returns the last overlapping task
checkTaskOverlap_lastHit(newTask, existingTasks) ==
  LET hits == { i \in 1..Len(existingTasks) :
                  /\ existingTasks[i].id # newTask.id
                  /\ doTimeRangesOverlap(newTask.startTime, newTask.endTime,
                                         existingTasks[i].startTime,
                                         existingTasks[i].endTime) }
  IN IF hits = {} THEN 0 ELSE CHOOSE i \in hits : \A j \in hits : j <= i

\* the position in existingTasks of the task checkTaskOverlap returns, 0 for null
checkTaskOverlap(newTask, existingTasks) ==
  LET hits == { i \in 1..Len(existingTasks) :
                  /\ existingTasks[i].id # newTask.id
                  /\ doTimeRangesOverlap(newTask.startTime, newTask.endTime,
                                         existingTasks[i].startTime,
                                         existingTasks[i].endTime) }
  IN IF hits = {} THEN 0 ELSE CHOOSE i \in hits : \A j \in hits : i <= j

(* --------------------- the tasks Map<string, Task> ---------------------- *)
\* a Map iterates in insertion order: the sequence of its values
MapHas(m, id) == \E i \in 1..Len(m) : m[i].id = id

MapIndex(m, id) == CHOOSE i \in 1..Len(m) : m[i].id = id

\* Map.set keeps the position of a key that is already present
MapSet(m, t) ==
  IF MapHas(m, t.id) THEN [m EXCEPT ![MapIndex(m, t.id)] = t] ELSE Append(m, t)

MapDelete(m, id) == SelectSeq(m, LAMBDA t : t.id # id)

MapKeys(m) == { m[i].id : i \in 1..Len(m) }

(* --------------------------- ScheduleManager ---------------------------- *)
VARIABLES
  tasks,      \* the Map of stored tasks, in insertion order
  held,       \* keys whose stored Task object the caller holds a reference to
  op,         \* the operation called last
  outcome,    \* how it ended: "ok", "true", "false" or the name of the error
  published,  \* the events it passed to notify, in order
  conflict,   \* the id of the conflicting task it reported, NoId if none
  observers,  \* the observers array, in the order of the push calls
  delivered,  \* the update() calls notify made during the last operation, in order
  seen,       \* the schedule each of these calls found, in the same order
  before,     \* pairs <<a, b>> of attached observers: a's attach came before b's
  life        \* per observer: never attached, attached, detached, attached again

managerVars == <<tasks, held, op, outcome, published, conflict,
                 observers, delivered, seen, before, life>>

VARIABLES
  ret,         \* the last call of a static function: its name, arguments, result
  taskCounter, \* TaskFactory.taskCounter
  clock,       \* the tick the system clock stands at
  made,        \* the ids TaskFactory.createTask has given out, in order
  instance,    \* ScheduleManager.instance: the manager it refers to
  constructed, \* how many managers the constructor has built
  handles,     \* what the calls of getInstance returned, in order
  state,        \* LearningModule.state, by its getStateName()
  lessons,      \* LearningModule.lessons
  progress,     \* LearningModule.progress
  assessment,   \* LearningModule.assessment
  stateHistory, \* LearningModule.stateHistory, without the time of day
  users,        \* UserRepository.users: what changes of each User
  sessions,     \* SessionManager.sessions: the user of each session id
  logs          \* ActivityLogger.logs, without the time and the address

factoryVars == <<taskCounter, clock, made>>

\* the state outside the ScheduleManager object
singletonVars == <<instance, constructed, handles>>
moduleVars == <<state, lessons, progress, assessment, stateHistory>>
facadeVars == <<users, sessions, logs>>
outside == <<ret, factoryVars, singletonVars, moduleVars, facadeVars>>

vars == <<managerVars, outside>>

\* no static function has been called yet
NoCall == [fn |-> "none"]

\* `hash_${password}_${password.length}`
hashPassword(password) == <<"hash", password, Len(password)>>

\* UserRepository.initializeMockUsers: the passwords are spelled by a letter
\* for each run of characters
MockUsers ==
  ("john_doe" :> [userId |-> "U001", passwordHash |-> hashPassword(<<"p", "1">>)]) @@
  ("jane_smith" :> [userId |-> "U002", passwordHash |-> hashPassword(<<"s", "4">>)])
\* the static field before its first assignment
NoInstance == 0

NoId == ""

Result(m, out, evs, c) ==
  [tasks |-> m, outcome |-> out, published |-> evs, conflict |-> c]

checkForConflict(m, task) == checkTaskOverlap(task, m)

\* mutant: the last task that matches is taken
getTaskByDescription_lastMatch(m, description) ==
  LET hits == { i \in 1..Len(m) :
                  toLowerCase(m[i].description) = toLowerCase(description) }
  IN IF hits = {} THEN 0 ELSE CHOOSE i \in hits : \A j \in hits : j <= i

\* Array.from(tasks.values()).find(...): the position of the first match, 0 if none
getTaskByDescription(m, description) ==
  LET hits == { i \in 1..Len(m) :
                  toLowerCase(m[i].description) = toLowerCase(description) }
  IN IF hits = {} THEN 0 ELSE CHOOSE i \in hits : \A j \in hits : i <= j

\* mutant: the conflict is thrown without notify(TASK_CONFLICT)
addTaskRun_noConflictEvent(m, task) ==
  LET err == validateTask(task)
      c == checkForConflict(m, task)
  IN IF err # NoError
       THEN Result(m, err, <<"TASK_ADD_FAILED">>, NoId)
     ELSE IF c # 0
       THEN Result(m, "TaskConflictError", <<"TASK_ADD_FAILED">>, m[c].id)
     ELSE IF toJSONThrows(task)
       THEN Result(MapSet(m, task), "RangeError", <<"TASK_ADD_FAILED">>, NoId)
     ELSE Result(MapSet(m, task), "ok", <<"TASK_ADDED">>, NoId)

\* mutant: validateTask is called before the try block, as updateTask does
addTaskRun_validateOutsideTry(m, task) ==
  LET err == validateTask(task)
      c == checkForConflict(m, task)
  IN IF err # NoError
       THEN Result(m, err, <<>>, NoId)
     ELSE IF c # 0
       THEN Result(m, "TaskConflictError",
                   <<"TASK_CONFLICT", "TASK_ADD_FAILED">>, m[c].id)
     ELSE IF toJSONThrows(task)
       THEN Result(MapSet(m, task), "RangeError", <<"TASK_ADD_FAILED">>, NoId)
     ELSE Result(MapSet(m, task), "ok", <<"TASK_ADDED">>, NoId)

\* mutant: the conflict is thrown past the catch block
addTaskRun_conflictSkipsCatch(m, task) ==
  LET err == validateTask(task)
      c == checkForConflict(m, task)
  IN IF err # NoError
       THEN Result(m, err, <<"TASK_ADD_FAILED">>, NoId)
     ELSE IF c # 0
       THEN Result(m, "TaskConflictError", <<"TASK_CONFLICT">>, m[c].id)
     ELSE IF toJSONThrows(task)
       THEN Result(MapSet(m, task), "RangeError", <<"TASK_ADD_FAILED">>, NoId)
     ELSE Result(MapSet(m, task), "ok", <<"TASK_ADDED">>, NoId)

addTaskRun(m, task) ==
  LET err == validateTask(task)
      c == checkForConflict(m, task)
  IN IF err # NoError
       THEN Result(m, err, <<"TASK_ADD_FAILED">>, NoId)
     ELSE IF c # 0
       THEN Result(m, "TaskConflictError",
                   <<"TASK_CONFLICT", "TASK_ADD_FAILED">>, m[c].id)
     ELSE IF toJSONThrows(task)
       THEN Result(MapSet(m, task), "RangeError", <<"TASK_ADD_FAILED">>, NoId)
     ELSE Result(MapSet(m, task), "ok", <<"TASK_ADDED">>, NoId)

\* mutant: a description that matches nothing is an error, as in markTaskCompleted
removeTaskRun_throwsNotFound(m, description) ==
  LET i == getTaskByDescription(m, description)
  IN IF i = 0
       THEN Result(m, "TaskNotFoundError", <<>>, NoId)
     ELSE IF toJSONThrows(m[i])
       THEN Result(MapDelete(m, m[i].id), "RangeError", <<>>, NoId)
     ELSE Result(MapDelete(m, m[i].id), "true", <<"TASK_REMOVED">>, NoId)

removeTaskRun(m, description) ==
  LET i == getTaskByDescription(m, description)
  IN IF i = 0
       THEN Result(m, "false", <<>>, NoId)
     ELSE IF toJSONThrows(m[i])
       THEN Result(MapDelete(m, m[i].id), "RangeError", <<>>, NoId)
     ELSE Result(MapDelete(m, m[i].id), "true", <<"TASK_REMOVED">>, NoId)

\* mutant: the edited task is checked against every stored task, itself included
updateTaskRun_checksSelf(m, taskId, updatedTask, now) ==
  IF ~MapHas(m, taskId)
    THEN Result(m, "TaskNotFoundError", <<>>, NoId)
  ELSE
    LET i == MapIndex(m, taskId)
        tempTask == update(m[i], updatedTask, now)
        err == validateTask(tempTask)
        hits == { j \in 1..Len(m) :
                    doTimeRangesOverlap(tempTask.startTime, tempTask.endTime,
                                        m[j].startTime, m[j].endTime) }
    IN IF err # NoError
         THEN Result(m, err, <<>>, NoId)
       ELSE IF hits # {}
         THEN Result(m, "TaskConflictError", <<"TASK_UPDATE_FAILED">>,
                     m[CHOOSE j \in hits : \A k \in hits : j <= k].id)
       ELSE Result([m EXCEPT ![i] = tempTask], "ok", <<"TASK_UPDATED">>, NoId)

\* mutant: an unknown id is reported to the observers before the throw
updateTaskRun_publishesNotFound(m, taskId, updatedTask, now) ==
  IF ~MapHas(m, taskId)
    THEN Result(m, "TaskNotFoundError", <<"TASK_UPDATE_FAILED">>, NoId)
  ELSE
    LET i == MapIndex(m, taskId)
        tempTask == update(m[i], updatedTask, now)
        err == validateTask(tempTask)
        otherTasks == SelectSeq(m, LAMBDA t : t.id # taskId)
        c == checkTaskOverlap(tempTask, otherTasks)
    IN IF err # NoError
         THEN Result(m, err, <<>>, NoId)
       ELSE IF c # 0
         THEN Result(m, "TaskConflictError", <<"TASK_UPDATE_FAILED">>,
                     otherTasks[c].id)
       ELSE Result([m EXCEPT ![i] = tempTask], "ok", <<"TASK_UPDATED">>, NoId)

updateTaskRun(m, taskId, updatedTask, now) ==
  IF ~MapHas(m, taskId)
    THEN Result(m, "TaskNotFoundError", <<>>, NoId)
  ELSE
    LET i == MapIndex(m, taskId)
        copy == clone(m[i])
        tempTask == update(copy.value, updatedTask, now)
        \* the stored object changes here only if tempTask is that object
        m1 == IF copy.fresh THEN m ELSE [m EXCEPT ![i] = tempTask]
        err == validateTask(tempTask)
        otherTasks == SelectSeq(m1, LAMBDA t : t.id # taskId)
        c == checkTaskOverlap(tempTask, otherTasks)
    IN IF err # NoError
         THEN Result(m1, err, <<>>, NoId)
       ELSE IF c # 0
         THEN IF toJSONThrows(otherTasks[c])
                THEN Result(m1, "RangeError", <<>>, NoId)
                ELSE Result(m1, "TaskConflictError", <<"TASK_UPDATE_FAILED">>,
                            otherTasks[c].id)
       ELSE
         LET m2 == [m1 EXCEPT ![i] = update(m1[i], updatedTask, now)]
         IN IF toJSONThrows(m2[i])
              THEN Result(m2, "RangeError", <<>>, NoId)
              ELSE Result(m2, "ok", <<"TASK_UPDATED">>, NoId)

markTaskCompletedRun(m, description, now) ==
  LET i == getTaskByDescription(m, description)
  IN IF i = 0
       THEN Result(m, "TaskNotFoundError", <<>>, NoId)
     ELSE
       LET m1 == [m EXCEPT ![i] = markCompleted(m[i], now)]
       IN IF toJSONThrows(m1[i])
            THEN Result(m1, "RangeError", <<>>, NoId)
            ELSE Result(m1, "ok", <<"TASK_COMPLETED">>, NoId)

clearAllTasksRun(m) == Result(<<>>, "ok", <<"SCHEDULE_CLEARED">>, NoId)

\* Array.prototype.sort is stable: t goes behind every element that does not
\* compare greater than it
RECURSIVE InsertByStartTime(_, _)
InsertByStartTime(sorted, t) ==
  IF sorted = <<>> THEN <<t>>
  ELSE IF compareTimeStrings(Head(sorted).startTime, t.startTime) > 0
    THEN <<t>> \o sorted
  ELSE <<Head(sorted)>> \o InsertByStartTime(Tail(sorted), t)

RECURSIVE SortByStartTime(_)
SortByStartTime(tasksArray) ==
  IF tasksArray = <<>> THEN <<>>
  ELSE InsertByStartTime(SortByStartTime(SubSeq(tasksArray, 1, Len(tasksArray) - 1)),
                         tasksArray[Len(tasksArray)])

\* mutant: the values of the Map as they come, without the sort
getAllTasksRun_unsorted(m) == m

\* what getAllTasks returns: the stored tasks sorted by start time
getAllTasksRun(m) == SortByStartTime(m)

\* mutant: the filter keeps only the tasks that lie inside the range
getTasksByTimeRangeRun_inside(m, startTime, endTime) ==
  SortByStartTime(
    SelectSeq(m, LAMBDA task :
      /\ compareTimeStrings(task.startTime, startTime) >= 0
      /\ compareTimeStrings(task.endTime, endTime) <= 0))

\* what getTasksByTimeRange returns when validateTimeRange has passed
getTasksByTimeRangeRun(m, startTime, endTime) ==
  SortByStartTime(
    SelectSeq(m, LAMBDA task :
      doTimeRangesOverlap(task.startTime, task.endTime, startTime, endTime)))

\* new Date(x): the date a timestamp text stands for, Invalid Date otherwise
NewDate(x) == IF x - IsoText \in Clock THEN x - IsoText ELSE InvalidDate

\* Task.fromJSON: completed || false, updatedAt only when the record has one
fromJSON(obj) ==
  [ id |-> obj.id, description |-> obj.description,
    startTime |-> obj.startTime, endTime |-> obj.endTime,
    priority |-> obj.priority, completed |-> obj.completed,
    createdAt |-> NewDate(obj.createdAt),
    updatedAt |-> IF obj.updatedAt \notin {UndefinedDate, JsonNull}
                    THEN NewDate(obj.updatedAt) ELSE UndefinedDate ]

\* the loop of importFromJSON from record k on, cur being the Map so far
RECURSIVE importLoop(_, _, _)
importLoop(cur, tasksData, k) ==
  IF k > Len(tasksData)
    THEN Result(cur, "ok", <<"SCHEDULE_IMPORTED">>, NoId)
  ELSE LET task == fromJSON(tasksData[k])
           err == validateTask(task)
       IN IF err # NoError
            THEN Result(cur, err, <<>>, NoId)
            ELSE importLoop(MapSet(cur, task), tasksData, k + 1)

\* mutant: the Map is not cleared, the records are added to what is stored
importFromJSONRun_merge(m, json) ==
  IF json.kind = "malformed" THEN Result(m, "SyntaxError", <<>>, NoId)
  ELSE IF json.kind # "array" THEN Result(m, "Error", <<>>, NoId)
  ELSE importLoop(m, json.items, 1)

\* json is what JSON.parse makes of the text: nothing (it throws), a value
\* that is no array, or an array of records
importFromJSONRun(m, json) ==
  IF json.kind = "malformed" THEN Result(m, "SyntaxError", <<>>, NoId)
  ELSE IF json.kind # "array" THEN Result(m, "Error", <<>>, NoId)
  ELSE importLoop(<<>>, json.items, 1)

\* exportToJSON maps toJSON over getAllTasks(): toISOString throws RangeError
\* for the first task that holds an Invalid Date
exportToJSONThrows(m) == \E i \in 1..Len(m) : toJSONThrows(m[i])

\* what JSON.parse makes of the text exportToJSON returns
exportToJSONRun(m) ==
  [ kind |-> "array",
    items |-> [k \in 1..Len(m) |-> toJSON(getAllTasksRun(m)[k])] ]

(* ------------------------------ observers ------------------------------- *)
\* three observers: O1 declares no isInterestedIn and its update returns; O2
\* declares none either and its update throws; O3 declares isInterestedIn,
\* which is false for two events and throws for one, and its update returns
Observers == {"O1", "O2", "O3"}

\* O4's update calls manager.detach(O4); O5's update calls back into the
\* manager's mutators; neither declares isInterestedIn
Detachers == {"O4"}

Callers == {"O5"}

AllObservers == Observers \cup Detachers \cup Callers

\* mutant: notify does not look for the optional method
hasIsInterestedIn_never(o) == FALSE

hasIsInterestedIn(o) == o = "O3"

isInterestedIn(o, event) ==
  IF event = "TASK_REMOVED" THEN "throws"
  ELSE IF event \in {"TASK_COMPLETED", "SCHEDULE_CLEARED"} THEN "false"
  ELSE "true"

updateThrows(o, event) == o = "O2"

Call(o, event) == [observer |-> o, event |-> event]

\* mutant: the array never reports an element as present
includes_never(array, item) == FALSE

\* Array.prototype.includes
includes(array, item) == \E k \in 1..Len(array) : array[k] = item

\* Array.prototype.indexOf, counted from 1; 0 stands for -1
indexOf(array, item) ==
  IF includes(array, item)
    THEN CHOOSE k \in 1..Len(array) :
           array[k] = item /\ \A j \in 1..(k - 1) : array[j] # item
    ELSE 0

\* mutant: nothing is taken out of the array
splice_nothing(array, index) == array

\* Array.prototype.splice(index, 1): the array itself loses the element
splice(array, index) ==
  SubSeq(array, 1, index - 1) \o SubSeq(array, index + 1, Len(array))

\* the manager call O5 makes when it is told of an event
Reaction ==
  [ TASK_ADDED |->
      [ name |-> "addTask",
        task |-> Task("T3", "A", TimeGrid[1], TimeGrid[3], "Low", 1) ],
    TASK_CONFLICT |-> [name |-> "removeTask", description |-> "A"],
    TASK_REMOVED |->
      [ name |-> "addTask",
        task |-> Task("T3", "A", TimeGrid[1], TimeGrid[2], "Low", 1) ],
    TASK_UPDATED |->
      [ name |-> "addTask",
        task |-> Task("T3", "A", TimeGrid[1], TimeGrid[2], "Low", 1) ],
    TASK_COMPLETED |->
      [ name |-> "updateTask", taskId |-> "T2",
        updates |-> [startTime |-> TimeGrid[1]], now |-> 1 ] ]

RunCall(m, call) ==
  IF call.name = "addTask" THEN addTaskRun(m, call.task)
  ELSE IF call.name = "removeTask" THEN removeTaskRun(m, call.description)
  ELSE updateTaskRun(m, call.taskId, call.updates, call.now)

\* the manager while an operation runs: the Map, the observers array, the
\* update() calls made so far with the schedule each of them found, the events
\* the operation in progress has passed to notify, and whether an exception
\* is on its way out
World(m, obs) ==
  [ tasks |-> m, observers |-> obs, invoked |-> <<>>, seen |-> <<>>,
    sent |-> <<>>, escaped |-> FALSE ]

\* manager.detach(o) called by o's own update
selfDetach(w, o) ==
  IF indexOf(w.observers, o) = 0 THEN w
  ELSE [w EXCEPT !.observers = splice(@, indexOf(w.observers, o))]

Invoke(w, o, event) ==
  [w EXCEPT !.invoked = Append(@, Call(o, event)), !.seen = Append(@, w.tasks)]

\* notify as it runs inside a manager call that O5's update made: O5 is then
\* already in its handler and returns without calling the manager again
RECURSIVE nestedLoop(_, _, _)
nestedLoop(w, event, k) ==
  IF k > Len(w.observers) THEN w
  ELSE IF hasIsInterestedIn(w.observers[k])
          /\ isInterestedIn(w.observers[k], event) # "true"
    THEN nestedLoop(w, event, k + 1)
  ELSE IF updateThrows(w.observers[k], event)
    THEN nestedLoop(Invoke(w, w.observers[k], event), event, k + 1)
  ELSE IF w.observers[k] \in Detachers
    THEN nestedLoop(selfDetach(Invoke(w, w.observers[k], event), w.observers[k]),
                    event, k + 1)
  ELSE nestedLoop(Invoke(w, w.observers[k], event), event, k + 1)

RECURSIVE nestedEach(_, _, _)
nestedEach(w, evs, k) ==
  IF k > Len(evs) THEN w
  ELSE nestedEach(nestedLoop(w, evs[k], 1), evs, k + 1)

\* a manager call made from inside update(), r being what its scan and its
\* writes come to: it writes the Map, then notifies
reenterWith(w, r) == nestedEach([w EXCEPT !.tasks = r.tasks], r.published, 1)

reenter(w, call) == reenterWith(w, RunCall(w.tasks, call))

\* observer.update(event, data) of observer o
observerUpdate(w, o, event) ==
  IF o \in Detachers THEN selfDetach(w, o)
  ELSE IF o \in Callers /\ event \in DOMAIN Reaction
    THEN reenter(w, Reaction[event])
  ELSE w

\* mutant: one try around the whole loop, the first failure ends the dispatch
RECURSIVE notifyLoop_stopsAtFailure(_, _, _)
notifyLoop_stopsAtFailure(w, event, k) ==
  IF k > Len(w.observers) THEN w
  ELSE IF hasIsInterestedIn(w.observers[k])
          /\ isInterestedIn(w.observers[k], event) = "throws"
    THEN w
  ELSE IF hasIsInterestedIn(w.observers[k])
          /\ isInterestedIn(w.observers[k], event) = "false"
    THEN notifyLoop_stopsAtFailure(w, event, k + 1)
  ELSE IF updateThrows(w.observers[k], event)
    THEN Invoke(w, w.observers[k], event)
  ELSE notifyLoop_stopsAtFailure(
         observerUpdate(Invoke(w, w.observers[k], event), w.observers[k], event),
         event, k + 1)

\* mutant: no try in the loop, a failure leaves notify as an exception
RECURSIVE notifyLoop_rethrows(_, _, _)
notifyLoop_rethrows(w, event, k) ==
  IF k > Len(w.observers) THEN w
  ELSE IF hasIsInterestedIn(w.observers[k])
          /\ isInterestedIn(w.observers[k], event) = "throws"
    THEN [w EXCEPT !.escaped = TRUE]
  ELSE IF hasIsInterestedIn(w.observers[k])
          /\ isInterestedIn(w.observers[k], event) = "false"
    THEN notifyLoop_rethrows(w, event, k + 1)
  ELSE IF updateThrows(w.observers[k], event)
    THEN [Invoke(w, w.observers[k], event) EXCEPT !.escaped = TRUE]
  ELSE notifyLoop_rethrows(
         observerUpdate(Invoke(w, w.observers[k], event), w.observers[k], event),
         event, k + 1)

\* for (const observer of this.observers) { try { ... } catch { log } }: the
\* iterator reads this.observers[k] afresh in every round, so it sees what the
\* handlers did to the array; the catch block only logs, and the logger does
\* not throw
RECURSIVE notifyLoop(_, _, _)
notifyLoop(w, event, k) ==
  IF k > Len(w.observers) THEN w
  ELSE IF hasIsInterestedIn(w.observers[k])
          /\ isInterestedIn(w.observers[k], event) = "throws"
    THEN notifyLoop(w, event, k + 1)
  ELSE IF hasIsInterestedIn(w.observers[k])
          /\ isInterestedIn(w.observers[k], event) = "false"
    THEN notifyLoop(w, event, k + 1)
  ELSE IF updateThrows(w.observers[k], event)
    THEN notifyLoop(Invoke(w, w.observers[k], event), event, k + 1)
  ELSE notifyLoop(
         observerUpdate(Invoke(w, w.observers[k], event), w.observers[k], event),
         event, k + 1)

notify(w, event) ==
  notifyLoop([w EXCEPT !.sent = Append(@, event)], event, 1)

\* the notify calls of one operation, one after the other, up to the first
\* that lets an exception out
RECURSIVE notifyEach(_, _, _)
notifyEach(w, evs, k) ==
  IF k > Len(evs) \/ w.escaped THEN w
  ELSE notifyEach(notify(w, evs[k]), evs, k + 1)

\* An exception out of notify ends the operation with that exception; inside
\* addTask's try block it first reaches the catch block, which notifies
\* TASK_ADD_FAILED
addTaskCatch(d, name) ==
  IF d.escaped /\ name = "addTask" /\ d.sent[Len(d.sent)] # "TASK_ADD_FAILED"
    THEN [notify([d EXCEPT !.escaped = FALSE], "TASK_ADD_FAILED")
            EXCEPT !.escaped = TRUE]
    ELSE d

publish(w, name, evs) == addTaskCatch(notifyEach(w, evs, 1), name)

\* mutant: the observers are told before the Map is written
Perform_notifyBeforeCommit(w, name, r) ==
  LET told == publish(w, name, r.published)
      gone == { t.id : t \in { w.tasks[i] : i \in 1..Len(w.tasks) } }
                \ { r.tasks[i].id : i \in 1..Len(r.tasks) }
      kept == SelectSeq(told.tasks, LAMBDA t : t.id \notin gone)
      put == SelectSeq(r.tasks,
                       LAMBDA t : \A i \in 1..Len(w.tasks) : w.tasks[i] # t)
  IN [told EXCEPT !.tasks =
        IF put = <<>> THEN kept
        ELSE IF Len(put) = 1 THEN MapSet(kept, put[1])
        ELSE MapSet(MapSet(kept, put[1]), put[2])]

\* mutant: updateTask tells the observers before it applies the update
Perform_updateNotifiesFirst(w, name, r) ==
  IF name = "updateTask"
    THEN Perform_notifyBeforeCommit(w, name, r)
    ELSE publish([w EXCEPT !.tasks = r.tasks], name, r.published)

\* one manager operation from the state w.tasks it was called in, r being what
\* its scan and its writes come to: in every operation the write to the Map
\* (tasks.set, task.update, tasks.delete, markCompleted, clear) stands before
\* the notify call
Perform(w, name, r) ==
  publish([w EXCEPT !.tasks = r.tasks], name, r.published)

\* the operation as its caller and its observers see it; with no observer
\* attached the loops of notify have nothing to run
Returned(d, r) ==
  [ outcome |-> IF d.escaped THEN "ObserverError" ELSE r.outcome,
    published |-> d.sent,
    delivered |-> d.invoked,
    seen |-> d.seen,
    tasks |-> d.tasks,
    observers |-> d.observers ]

Dispatch(name, r, m, obs) ==
  IF obs = <<>>
    THEN [ outcome |-> r.outcome, published |-> r.published, delivered |-> <<>>,
           seen |-> <<>>, tasks |-> r.tasks, observers |-> obs ]
    ELSE Returned(Perform(World(m, obs), name, r), r)

(* ------------------------------ inputs ---------------------------------- *)
DescA == "A"
DescLowerA == "a"
DescB == "B"
Blank == " "

Lookups == {DescA, DescLowerA, DescB}

Slot(k) == TimeGrid[k + 1]

\* tasks as the factory or the constructor makes them: every id with every
\* pair of grid times (equal and inverted ranges too), and the malformed shapes
TaskInputs ==
  { Task(id, DescA, s, e, "Low", now) :
      id \in IDs, s \in GoodTimes, e \in GoodTimes, now \in Clock }
  \cup { Task(id, d, Slot(0), Slot(1), "Low", now) :
           id \in IDs, d \in {Blank, ""}, now \in Clock }
  \cup { Task(id, DescA, s, Slot(1), "Low", now) :
           id \in IDs, s \in BadTimes, now \in Clock }
  \cup { Task(id, DescA, Slot(0), e, "Low", now) :
           id \in IDs, e \in BadTimes, now \in Clock }

\* changesets: one bound, both bounds, every field at once, a blank description
ChangeSets ==
  { [startTime |-> s] : s \in Times }
  \cup { [endTime |-> e] : e \in Times }
  \cup { [startTime |-> s, endTime |-> e] : s \in GoodTimes, e \in GoodTimes }
  \cup { [description |-> DescLowerA, startTime |-> s, endTime |-> e,
          priority |-> "High", completed |-> TRUE] :
           s \in GoodTimes, e \in GoodTimes }
  \cup { [description |-> Blank] }

\* a record of an exported array; createdAt 0 stands for a record without one
JsonRecord(id, description, startTime, endTime, createdAt) ==
  [ id |-> id, description |-> description, startTime |-> startTime,
    endTime |-> endTime, priority |-> "Low", completed |-> FALSE,
    createdAt |-> createdAt, updatedAt |-> UndefinedDate ]

\* two records that overlap, two that only touch, one with a blank description,
\* one without createdAt, one with equal bounds and one with inverted bounds
ImportRecords ==
  { JsonRecord("T1", DescA, Slot(0), Slot(1), toISOString(now)) : now \in Clock }
  \cup { JsonRecord("T1", DescA, Slot(0), Slot(2), toISOString(now)) : now \in Clock }
  \cup { JsonRecord("T2", DescA, Slot(1), Slot(2), toISOString(now)) : now \in Clock }
  \cup { JsonRecord("T3", Blank, Slot(0), Slot(1), toISOString(now)) : now \in Clock }
  \cup { JsonRecord("T3", DescA, Slot(2), Slot(3), UndefinedDate) }
  \cup { JsonRecord("T2", DescA, Slot(1), Slot(1), toISOString(now)) : now \in Clock }
  \cup { JsonRecord("T2", DescA, Slot(2), Slot(1), toISOString(now)) : now \in Clock }

RECURSIVE SeqsUpTo(_, _)
SeqsUpTo(S, n) ==
  IF n = 0 THEN {<<>>}
  ELSE SeqsUpTo(S, n - 1)
       \cup { Append(q, x) : q \in { p \in SeqsUpTo(S, n - 1) : Len(p) = n - 1 }, x \in S }

JsonInputs ==
  { [kind |-> "malformed", items |-> <<>>], [kind |-> "object", items |-> <<>>] }
  \cup { [kind |-> "array", items |-> q] : q \in SeqsUpTo(ImportRecords, MaxImport) }

\* what a caller writes into a Task object it holds
CallerWrites == { [endTime |-> TimeGrid[NumSlots + 1]] }

(* ------------------------------ actions --------------------------------- *)
Init ==
  /\ tasks = <<>>
  /\ held = {}
  /\ op = "init"
  /\ outcome = "ok"
  /\ published = <<>>
  /\ conflict = NoId
  /\ observers = <<>>
  /\ delivered = <<>>
  /\ seen = <<>>
  /\ before = {}
  /\ life = [o \in AllObservers |-> "never"]
  /\ ret = NoCall
  /\ taskCounter = 0
  /\ clock = 1
  /\ made = <<>>
  /\ instance = NoInstance
  /\ constructed = 0
  /\ handles = <<>>
  /\ state = "NOT_STARTED"
  /\ lessons = <<>>
  /\ progress = [ completedLessons |-> 0, totalLessons |-> 0,
                  currentScore |-> [total |-> 0, of |-> 1],
                  requiredScore |-> 70, timeSpent |-> 0, attempts |-> 1 ]
  /\ assessment = [ passingScore |-> 70, maxAttempts |-> 3, currentAttempt |-> 0,
                    score |-> 0, isPassed |-> FALSE ]
  /\ stateHistory = <<"NOT_STARTED">>
  /\ users = [u \in DOMAIN MockUsers |-> [accountLocked |-> FALSE, failedLoginAttempts |-> 0]]
  /\ sessions = <<>>
  /\ logs = <<>>

\* the observers whose handler has detached them during the calls made
DetachedBy(calls) ==
  { o \in Detachers : \E k \in 1..Len(calls) : calls[k].observer = o }

Commit(name, r) ==
  /\ Len(r.tasks) <= MaxTasks
  /\ op' = name
  /\ conflict' = r.conflict
  /\ \E d \in {Dispatch(name, r, tasks, observers)} :
       /\ Len(d.tasks) <= MaxTasks
       /\ tasks' = d.tasks
       /\ observers' = d.observers
       /\ outcome' = d.outcome
       /\ published' = d.published
       /\ delivered' = d.delivered
       /\ seen' = d.seen
       /\ IF d.observers = observers
            THEN UNCHANGED <<before, life>>
            ELSE /\ before' = { p \in before : p[1] \notin DetachedBy(d.delivered)
                                               /\ p[2] \notin DetachedBy(d.delivered) }
                 /\ life' = [o \in AllObservers |->
                               IF o \in DetachedBy(d.delivered) THEN "out" ELSE life[o]]
  /\ UNCHANGED outside

\* a call that touches neither the schedule nor the observers array
Quiet(name) ==
  /\ op' = name
  /\ outcome' = "ok"
  /\ published' = <<>>
  /\ delivered' = <<>>
  /\ seen' = <<>>
  /\ conflict' = NoId
  /\ UNCHANGED <<observers, before, life>>
  /\ UNCHANGED outside

Stored(r) == r.outcome \in {"ok", "RangeError"}

\* line 185 puts the caller's own object into the Map: the caller still holds it
addTask(task) ==
  \E r \in {addTaskRun(tasks, task)} :
    /\ Commit("addTask", r)
    /\ held' = IF Stored(r) THEN held \cup {task.id} ELSE held

removeTask(description) ==
  /\ \E r \in {removeTaskRun(tasks, description)} : Commit("removeTask", r)
  /\ held' = held \cap MapKeys(tasks')

updateTask(taskId, updatedTask) ==
  /\ \E now \in Clock :
       \E r \in {updateTaskRun(tasks, taskId, updatedTask, now)} :
         Commit("updateTask", r)
  /\ UNCHANGED held

markTaskCompleted(description) ==
  /\ \E now \in Clock :
       \E r \in {markTaskCompletedRun(tasks, description, now)} :
         Commit("markTaskCompleted", r)
  /\ UNCHANGED held

clearAllTasks ==
  /\ \E r \in {clearAllTasksRun(tasks)} : Commit("clearAllTasks", r)
  /\ held' = {}

\* the objects Task.fromJSON builds are new: the caller holds none of them
importFromJSON(json) ==
  /\ \E r \in {importFromJSONRun(tasks, json)} : Commit("importFromJSON", r)
  /\ held' = held \cap (IF tasks' = tasks THEN MapKeys(tasks) ELSE {})

\* Array.from(this.tasks.values()): a new array of the stored objects themselves
getAllTasks ==
  /\ held' = MapKeys(tasks)
  /\ Quiet("getAllTasks")
  /\ UNCHANGED tasks

\* the caller assigns to fields of a Task object it holds (task.endTime = ...)
Assign(t, writes) == [f \in DOMAIN t |-> IF f \in DOMAIN writes THEN writes[f] ELSE t[f]]

callerWrites(id, writes) ==
  /\ id \in held
  /\ MapHas(tasks, id)
  /\ tasks' = [tasks EXCEPT ![MapIndex(tasks, id)] = Assign(@, writes)]
  /\ Quiet("callerWrites")
  /\ UNCHANGED held

Next ==
  \/ \E task \in TaskInputs : addTask(task)
  \/ \E d \in Lookups : removeTask(d)
  \/ \E id \in IDs, u \in ChangeSets : updateTask(id, u)
  \/ \E d \in Lookups : markTaskCompleted(d)
  \/ clearAllTasks

Spec == Init /\ [][Next]_vars

\* the public operations with importFromJSON
NextImport ==
  \/ Next
  \/ \E json \in JsonInputs : importFromJSON(json)

SpecImport == Init /\ [][NextImport]_vars

\* the public operations with a caller that keeps and writes to Task objects
NextAlias ==
  \/ Next
  \/ getAllTasks
  \/ \E id \in IDs, w \in CallerWrites : callerWrites(id, w)

SpecAlias == Init /\ [][NextAlias]_vars

\* mutant: the new observer is put in front of the others
push_atFront(array, item) == <<item>> \o array

\* Array.prototype.push
push(array, item) == Append(array, item)

\* observers.includes / observers.push
attach(observer) ==
  /\ \/ includes(observers, observer)
     \/ Len(observers) < MaxObservers
  /\ IF includes(observers, observer)
       THEN /\ outcome' = "false"
            /\ UNCHANGED observers
       ELSE /\ outcome' = "true"
            /\ observers' = push(observers, observer)
  /\ IF life[observer] \in {"in", "again"}
       THEN UNCHANGED <<before, life>>
       ELSE /\ before' = before \cup
                    { <<a, observer>> : a \in { o \in AllObservers : life[o] \in {"in", "again"} } }
            /\ life' = [life EXCEPT ![observer] = IF @ = "never" THEN "in" ELSE "again"]
  /\ op' = "attach"
  /\ published' = <<>>
  /\ delivered' = <<>>
  /\ seen' = <<>>
  /\ conflict' = NoId
  /\ UNCHANGED <<tasks, held>>
  /\ UNCHANGED outside

\* observers.indexOf / observers.splice(index, 1)
detach(observer) ==
  /\ IF indexOf(observers, observer) # 0
       THEN /\ outcome' = "true"
            /\ observers' = splice(observers, indexOf(observers, observer))
       ELSE /\ outcome' = "false"
            /\ UNCHANGED observers
  /\ IF life[observer] \in {"in", "again"}
       THEN /\ before' = { p \in before : p[1] # observer /\ p[2] # observer }
            /\ life' = [life EXCEPT ![observer] = "out"]
       ELSE UNCHANGED <<before, life>>
  /\ op' = "detach"
  /\ published' = <<>>
  /\ delivered' = <<>>
  /\ seen' = <<>>
  /\ conflict' = NoId
  /\ UNCHANGED <<tasks, held>>
  /\ UNCHANGED outside

\* mutant: detachAll empties the schedule as well
detachAll_clearsTasks ==
  /\ observers' = <<>>
  /\ before' = {}
  /\ life' = [o \in AllObservers |-> IF life[o] \in {"in", "again"} THEN "out" ELSE life[o]]
  /\ op' = "detachAll"
  /\ outcome' = "ok"
  /\ published' = <<>>
  /\ delivered' = <<>>
  /\ seen' = <<>>
  /\ conflict' = NoId
  /\ tasks' = <<>>
  /\ UNCHANGED held
  /\ UNCHANGED outside

detachAll ==
  /\ observers' = <<>>
  /\ before' = {}
  /\ life' = [o \in AllObservers |-> IF life[o] \in {"in", "again"} THEN "out" ELSE life[o]]
  /\ op' = "detachAll"
  /\ outcome' = "ok"
  /\ published' = <<>>
  /\ delivered' = <<>>
  /\ seen' = <<>>
  /\ conflict' = NoId
  /\ UNCHANGED <<tasks, held>>
  /\ UNCHANGED outside

\* the tasks and changesets the schedule is driven with while observers listen
ObserverTaskInputs ==
  { Task("T1", DescA, Slot(0), Slot(1), "Low", 1),
    Task("T2", DescA, Slot(0), Slot(2), "Low", 1),
    Task("T2", DescA, Slot(1), Slot(2), "Low", 1),
    Task("T2", DescA, Slot(1), Slot(1), "Low", 1) }

ObserverChangeSets == { [startTime |-> Slot(0)], [endTime |-> Slot(3)] }

\* the public operations with observers that come and go
NextObservers ==
  \/ \E o \in Observers : attach(o)
  \/ \E o \in Observers : detach(o)
  \/ detachAll
  \/ \E task \in ObserverTaskInputs : addTask(task)
  \/ removeTask(DescA)
  \/ \E u \in ObserverChangeSets : updateTask("T2", u)
  \/ markTaskCompleted(DescA)
  \/ clearAllTasks

SpecObservers == Init /\ [][NextObservers]_vars

\* what is imported while observers listen
ObserverJsonInputs ==
  { [ kind |-> "array",
      items |-> <<JsonRecord("T1", DescA, Slot(0), Slot(1), toISOString(1))>> ],
    [ kind |-> "array",
      items |-> <<JsonRecord("T3", Blank, Slot(0), Slot(1), toISOString(1))>> ] }

\* filter and sort make a new array of the stored objects themselves
getTasksByTimeRange(startTime, endTime) ==
  /\ op' = "getTasksByTimeRange"
  /\ IF validateTimeRangeThrows(startTime, endTime)
       THEN /\ outcome' = "InvalidTimeRangeError"
            /\ UNCHANGED held
       ELSE /\ outcome' = "ok"
            /\ held' = held \cup MapKeys(getTasksByTimeRangeRun(tasks, startTime, endTime))
  /\ published' = <<>>
  /\ delivered' = <<>>
  /\ seen' = <<>>
  /\ conflict' = NoId
  /\ UNCHANGED <<tasks, observers, before, life>>
  /\ UNCHANGED outside

\* the public operations with the two queries
NextQuery ==
  \/ Next
  \/ getAllTasks
  \/ \E startTime, endTime \in GoodTimes : getTasksByTimeRange(startTime, endTime)

SpecQuery == Init /\ [][NextQuery]_vars

\* the text is built from new plain objects: nothing stored is touched
exportToJSON ==
  /\ op' = "exportToJSON"
  /\ outcome' = IF exportToJSONThrows(tasks) THEN "RangeError" ELSE "ok"
  /\ published' = <<>>
  /\ delivered' = <<>>
  /\ seen' = <<>>
  /\ conflict' = NoId
  /\ UNCHANGED <<tasks, held, observers, before, life>>
  /\ UNCHANGED outside

\* two records that touch, and one record without createdAt
RoundTripJsonInputs ==
  { [ kind |-> "array",
      items |-> << JsonRecord("T1", DescA, Slot(0), Slot(1), toISOString(1)),
                   JsonRecord("T2", DescA, Slot(1), Slot(2), toISOString(1)) >> ],
    [ kind |-> "array",
      items |-> <<JsonRecord("T3", DescA, Slot(2), Slot(3), UndefinedDate)>> ] }

\* the public operations with exportToJSON and importFromJSON
NextExport ==
  \/ Next
  \/ exportToJSON
  \/ \E json \in RoundTripJsonInputs : importFromJSON(json)

SpecExport == Init /\ [][NextExport]_vars

\* the same with an observer that detaches itself in its handler, and imports
NextDetach ==
  \/ NextObservers
  \/ \E o \in Detachers : attach(o)
  \/ \E o \in Detachers : detach(o)
  \/ \E json \in ObserverJsonInputs : importFromJSON(json)

SpecDetach == Init /\ [][NextDetach]_vars

\* every public operation, with observers whose handlers only take the event
NextListeners ==
  \/ NextObservers
  \/ \E json \in ObserverJsonInputs : importFromJSON(json)

SpecListeners == Init /\ [][NextListeners]_vars

\* the same with an observer that calls back into the manager from its handler
NextReentrant ==
  \/ NextObservers
  \/ \E o \in Callers : attach(o)
  \/ \E o \in Callers : detach(o)

SpecReentrant == Init /\ [][NextReentrant]_vars

(* ------------------------------ singleton ------------------------------- *)
\* mutant: every call builds a manager
needsInstance_always(inst) == TRUE

\* !ScheduleManager.instance
needsInstance(inst) == inst = NoInstance

\* the constructor gives the new manager an empty Map and an empty list;
\* tasks and observers are the fields of the manager the static field names
getInstance ==
  /\ Len(handles) < MaxHandles
  /\ IF needsInstance(instance)
       THEN /\ constructed' = constructed + 1
            /\ instance' = constructed + 1
            /\ tasks' = <<>>
            /\ observers' = <<>>
       ELSE UNCHANGED <<instance, constructed, tasks, observers>>
  /\ handles' = Append(handles, instance')
  /\ UNCHANGED <<held, op, outcome, published, conflict, delivered, seen, before, life>>
  /\ UNCHANGED <<ret, factoryVars, moduleVars, facadeVars>>

\* the manager is reached through a handle getInstance has returned
NextSingleton ==
  \/ getInstance
  \/ handles # <<>> /\ \E task \in ObserverTaskInputs : addTask(task)
  \/ handles # <<>> /\ \E o \in Observers : attach(o)

SpecSingleton == Init /\ [][NextSingleton]_vars

(* ----------------------------- TaskFactory ------------------------------ *)
TicksPerSecond == 2

\* getFullYear() ... getSeconds(): the clock reading cut down to its second
Seconds(tick) == tick \div TicksPerSecond

\* `${ID_PREFIX}-${year}${month}${day}-${hours}${minutes}${seconds}-${counter}`:
\* the date and time texts name the second, and padStart(4, '0') lengthens
\* the counter's text without ever cutting it
generateTaskId(tick, counter) == [stamp |-> Seconds(tick), counter |-> counter]

\* the string that has these characters
Atom(chars) == CHOOSE d \in DOMAIN Chars : Chars[d] = chars

\* priority.toLowerCase().trim() of the texts the factory is called with
normalizedPriority ==
  ("Low" :> "low") @@ ("High" :> "high") @@ ("high" :> "high") @@
  (" LOW " :> "low") @@ ("Urgent" :> "urgent")

PriorityTexts == DOMAIN normalizedPriority

parseTaskPriorityThrows(priority) ==
  normalizedPriority[priority] \notin {"low", "medium", "high"}

parseTaskPriority(priority) ==
  CASE normalizedPriority[priority] = "low" -> "Low"
    [] normalizedPriority[priority] = "medium" -> "Medium"
    [] normalizedPriority[priority] = "high" -> "High"

\* Object.values(TaskPriority)
TaskPriorityValues == {"Low", "Medium", "High"}

parsePriorityThrows(priority) ==
  priority \notin TaskPriorityValues /\ parseTaskPriorityThrows(priority)

parsePriority(priority) ==
  IF priority \in TaskPriorityValues THEN priority ELSE parseTaskPriority(priority)

\* mutant: the range is checked before the format
validateInputs_rangeFirst(description, startTime, endTime) ==
  IF description = "" \/ trim(description) = <<>>
    THEN "InvalidTaskDescriptionError"
  ELSE IF validateTimeRangeThrows(startTime, endTime)
    THEN "InvalidTimeRangeError"
  ELSE IF validateTimeFormatThrows(startTime) \/ validateTimeFormatThrows(endTime)
    THEN "InvalidTimeFormatError"
  ELSE NoError

\* the error validateInputs throws, NoError when it returns
validateInputs(description, startTime, endTime) ==
  IF description = "" \/ trim(description) = <<>>
    THEN "InvalidTaskDescriptionError"
  ELSE IF validateTimeFormatThrows(startTime) \/ validateTimeFormatThrows(endTime)
    THEN "InvalidTimeFormatError"
  ELSE IF validateTimeRangeThrows(startTime, endTime)
    THEN "InvalidTimeRangeError"
  ELSE NoError

\* String.prototype.padStart(2, '0')
padStart2(chars) ==
  IF Len(chars) = 0 THEN <<"0", "0">>
  ELSE IF Len(chars) = 1 THEN <<"0">> \o chars
  ELSE chars

\* TimeUtils.formatTime of a time that has passed validateTimeFormat
formatTime(time) ==
  Atom(padStart2(HourStr(Chars[time])) \o <<":">> \o padStart2(MinuteStr(Chars[time])))

\* the UTF-16 code unit of a character
CharCode(c) ==
  IF IsDigit(c) THEN 48 + DigitVal(c)
  ELSE CASE c = " " -> 32 [] c = ":" -> 58 [] c = "A" -> 65 [] c = "B" -> 66
         [] c = "a" -> 97

\* a < b for two strings, as JavaScript compares them
RECURSIVE StringLess(_, _)
StringLess(a, b) ==
  IF b = <<>> THEN FALSE
  ELSE IF a = <<>> THEN TRUE
  ELSE IF CharCode(Head(a)) # CharCode(Head(b))
    THEN CharCode(Head(a)) < CharCode(Head(b))
  ELSE StringLess(Tail(a), Tail(b))

\* /^([0-1]?[0-9]|2[0-3]):[0-5][0-9]$/ of Task.validate
timeRegex(time) ==
  LET c == Chars[time]
  IN \/ /\ Len(c) = 5
        /\ \/ c[1] \in {"0", "1"} /\ IsDigit(c[2])
           \/ c[1] = "2" /\ c[2] \in {"0", "1", "2", "3"}
        /\ c[3] = ":"
        /\ c[4] \in {"0", "1", "2", "3", "4", "5"}
        /\ IsDigit(c[5])
     \/ /\ Len(c) = 4
        /\ IsDigit(c[1])
        /\ c[2] = ":"
        /\ c[3] \in {"0", "1", "2", "3", "4", "5"}
        /\ IsDigit(c[4])

\* Task.validate returns a list that is not empty
validateFails(t) ==
  \/ t.description = "" \/ trim(t.description) = <<>>
  \/ ~timeRegex(t.startTime)
  \/ ~timeRegex(t.endTime)
  \/ ~StringLess(Chars[t.startTime], Chars[t.endTime])
  \/ t.priority \notin TaskPriorityValues

NoTask == [id |-> NoId]

Made(result, task, counter) ==
  [outcome |-> result, task |-> task, taskCounter |-> counter]

\* TaskFactory.createTask with the counter at counter and the clock at tick
createTaskRun(description, startTime, endTime, priority, counter, tick) ==
  IF validateInputs(description, startTime, endTime) # NoError
    THEN Made(validateInputs(description, startTime, endTime), NoTask, counter)
  ELSE IF parsePriorityThrows(priority)
    THEN Made("Error: Invalid priority", NoTask, counter)
  ELSE IF validateFails(Task(generateTaskId(tick, counter + 1),
                             Atom(trim(description)), formatTime(startTime),
                             formatTime(endTime), parsePriority(priority), tick))
    THEN Made("Error: Task validation failed", NoTask, counter + 1)
  ELSE Made("ok",
            Task(generateTaskId(tick, counter + 1), Atom(trim(description)),
                 formatTime(startTime), formatTime(endTime),
                 parsePriority(priority), tick),
            counter + 1)

Created(description, startTime, endTime, priority, r) ==
  [ fn |-> "createTask", description |-> description, startTime |-> startTime,
    endTime |-> endTime, priority |-> priority,
    outcome |-> r.outcome, task |-> r.task ]

createTask(description, startTime, endTime, priority) ==
  /\ taskCounter < MaxCounter
  /\ Len(made) < MaxMade
  /\ \E r \in {createTaskRun(description, startTime, endTime, priority,
                              taskCounter, clock)} :
       /\ ret' = Created(description, startTime, endTime, priority, r)
       /\ taskCounter' = r.taskCounter
       /\ made' = IF r.outcome = "ok" THEN Append(made, r.task.id) ELSE made
  /\ UNCHANGED <<clock, managerVars, singletonVars, moduleVars, facadeVars>>

resetCounter ==
  /\ taskCounter' = 0
  /\ ret' = [fn |-> "resetCounter"]
  /\ UNCHANGED <<clock, made, managerVars, singletonVars, moduleVars, facadeVars>>

setCounterValue(value) ==
  /\ taskCounter' = IF value < 0 THEN taskCounter ELSE value
  /\ ret' = [ fn |-> "setCounterValue", value |-> value,
              outcome |-> IF value < 0 THEN "Error" ELSE "ok" ]
  /\ UNCHANGED <<clock, made, managerVars, singletonVars, moduleVars, facadeVars>>

\* time passes
tick ==
  /\ clock < MaxTicks
  /\ clock' = clock + 1
  /\ UNCHANGED <<ret, taskCounter, made, managerVars, singletonVars, moduleVars, facadeVars>>

\* createTask with every mix of good and bad arguments
NextCreate ==
  \E description \in {"A", " A", " ", ""}, startTime \in Times, endTime \in Times,
     priority \in PriorityTexts :
    createTask(description, startTime, endTime, priority)

SpecCreate == Init /\ [][NextCreate]_vars

\* createTask while the clock runs and the counter is reset and set
NextFactory ==
  \/ \E description \in {"A", ""} : createTask(description, Slot(0), Slot(1), "Low")
  \/ resetCounter
  \/ \E value \in (0 - 1)..(MaxCounter - 1) : setCounterValue(value)
  \/ tick

SpecFactory == Init /\ [][NextFactory]_vars

(* ---------------------------- LearningModule ---------------------------- *)
States ==
  {"NOT_STARTED", "IN_PROGRESS", "PAUSED", "UNDER_ASSESSMENT", "COMPLETED", "FAILED"}

\* the state a call of start, pause, resume, fail or reset leaves the module
\* in: the state it is in when the state's method only logs
startTo(s) == IF s = "NOT_STARTED" THEN "IN_PROGRESS" ELSE s

pauseTo(s) == IF s = "IN_PROGRESS" THEN "PAUSED" ELSE s

resumeTo(s) == IF s = "PAUSED" THEN "IN_PROGRESS" ELSE s

completeTo(s, p, a) ==
  IF s = "IN_PROGRESS"
    THEN IF p.completedLessons < p.totalLessons THEN s ELSE "UNDER_ASSESSMENT"
  ELSE IF s = "UNDER_ASSESSMENT" THEN "COMPLETED"
  ELSE s

failTo(s) == IF s \in {"IN_PROGRESS", "PAUSED", "UNDER_ASSESSMENT"} THEN "FAILED" ELSE s

resetTo(s) == IF s = "NOT_STARTED" THEN s ELSE "NOT_STARTED"

\* context.setState(new ...) when the state's method calls it: no method
\* sets the state the module is already in
setState(target) ==
  /\ target # state => Len(stateHistory) < MaxHistory
  /\ state' = target
  /\ stateHistory' = IF target # state THEN Append(stateHistory, target)
                     ELSE stateHistory

notModule == <<managerVars, ret, factoryVars, singletonVars, facadeVars>>

start ==
  /\ setState(startTo(state))
  /\ UNCHANGED <<lessons, progress, assessment, notModule>>

pause ==
  /\ setState(pauseTo(state))
  /\ UNCHANGED <<lessons, progress, assessment, notModule>>

resume ==
  /\ setState(resumeTo(state))
  /\ UNCHANGED <<lessons, progress, assessment, notModule>>

complete ==
  /\ setState(completeTo(state, progress, assessment))
  /\ UNCHANGED <<lessons, progress, assessment, notModule>>

fail ==
  /\ setState(failTo(state))
  /\ UNCHANGED <<lessons, progress, assessment, notModule>>

reset ==
  /\ setState(resetTo(state))
  /\ UNCHANGED <<lessons, progress, assessment, notModule>>

addLesson(lessonId) ==
  /\ Len(lessons) < MaxLessons
  /\ lessons' = Append(lessons, [lessonId |-> lessonId, isCompleted |-> FALSE, score |-> 0])
  /\ progress' = [progress EXCEPT !.totalLessons = Len(lessons')]
  /\ UNCHANGED <<state, assessment, stateHistory, notModule>>

\* lessons.find(l => l.lessonId === lessonId): its position, 0 when there is none
findLesson(ls, lessonId) ==
  IF \E i \in 1..Len(ls) : ls[i].lessonId = lessonId
    THEN CHOOSE i \in 1..Len(ls) :
           /\ ls[i].lessonId = lessonId
           /\ \A j \in 1..(i - 1) : ls[j].lessonId # lessonId
    ELSE 0

RECURSIVE totalScore(_, _)
totalScore(ls, k) ==
  IF k > Len(ls) THEN 0
  ELSE (IF ls[k].isCompleted THEN ls[k].score ELSE 0) + totalScore(ls, k + 1)

\* totalScore / completedLessons.length, kept as the two numbers of the quotient
calculateAverageScore(ls) ==
  IF \A i \in 1..Len(ls) : ~ls[i].isCompleted
    THEN [total |-> 0, of |-> 1]
    ELSE [ total |-> totalScore(ls, 1),
           of |-> Cardinality({ i \in 1..Len(ls) : ls[i].isCompleted }) ]

completeLesson(lessonId, score) ==
  /\ IF findLesson(lessons, lessonId) # 0
        /\ ~lessons[findLesson(lessons, lessonId)].isCompleted
       THEN /\ lessons' = [lessons EXCEPT ![findLesson(lessons, lessonId)] =
                             [@ EXCEPT !.isCompleted = TRUE, !.score = score]]
            /\ progress' = [progress EXCEPT
                             !.completedLessons = @ + 1,
                             !.currentScore = calculateAverageScore(lessons')]
       ELSE UNCHANGED <<lessons, progress>>
  /\ UNCHANGED <<state, assessment, stateHistory, notModule>>

takeAssessment(score) ==
  /\ assessment.currentAttempt < MaxAttempt
  /\ assessment' = [assessment EXCEPT
                      !.currentAttempt = @ + 1,
                      !.score = score,
                      !.isPassed = IF score >= assessment.passingScore THEN TRUE ELSE @]
  /\ IF score >= assessment.passingScore
       THEN setState(completeTo(state, progress, assessment'))
       ELSE IF assessment'.currentAttempt >= assessment.maxAttempts
         THEN setState(failTo(state))
         ELSE UNCHANGED <<state, stateHistory>>
  /\ UNCHANGED <<lessons, progress, notModule>>

NextModule ==
  \/ start
  \/ pause
  \/ resume
  \/ complete
  \/ fail
  \/ reset
  \/ \E lessonId \in {"L1", "L2"} : addLesson(lessonId)
  \/ \E lessonId \in {"L1", "L2"}, score \in {60, 100} : completeLesson(lessonId, score)
  \/ \E score \in {69, 70} : takeAssessment(score)

SpecModule == Init /\ [][NextModule]_vars

(* ------------------------------ LoginFacade ----------------------------- *)
maxFailedAttempts == 3

\* mutant: the account is locked by the attempt after the third
handleFailedLogin_lateLock(user) ==
  [ failedLoginAttempts |-> user.failedLoginAttempts + 1,
    accountLocked |-> IF user.failedLoginAttempts + 1 > maxFailedAttempts
                        THEN TRUE ELSE user.accountLocked ]

\* incrementFailedAttempts, then lockAccount at maxFailedAttempts
handleFailedLogin(user) ==
  [ failedLoginAttempts |-> user.failedLoginAttempts + 1,
    accountLocked |-> IF user.failedLoginAttempts + 1 >= maxFailedAttempts
                        THEN TRUE ELSE user.accountLocked ]

handleSuccessfulLogin(user) == [user EXCEPT !.failedLoginAttempts = 0]

validateCredentials(username, password) ==
  hashPassword(password) = MockUsers[username].passwordHash

logLoginAttempt(username, success) ==
  [kind |-> "LOGIN", success |-> success, username |-> username]

logSecurityEvent(username) ==
  [kind |-> "SECURITY", success |-> FALSE, username |-> username]

logLogout(username) == [kind |-> "LOGOUT", success |-> TRUE, username |-> username]

\* what generateSessionId can come to: the time and nine random characters
SessionIds == {"S1", "S2"}

\* sessions.set(sessionId, sessionData)
createSession(m, sessionId, userId) ==
  IF \E i \in 1..Len(m) : m[i].sessionId = sessionId
    THEN [ i \in 1..Len(m) |->
             IF m[i].sessionId = sessionId
               THEN [sessionId |-> sessionId, userId |-> userId] ELSE m[i] ]
    ELSE Append(m, [sessionId |-> sessionId, userId |-> userId])

LoginResult(username, password, isSuccess, message) ==
  [ fn |-> "login", username |-> username, password |-> password,
    isSuccess |-> isSuccess, message |-> message ]

notFacade == <<managerVars, factoryVars, singletonVars, moduleVars>>

login(username, password) ==
  /\ Len(logs) < MaxLogs
  /\ IF username \notin DOMAIN users
       THEN /\ logs' = Append(logs, logLoginAttempt(username, FALSE))
            /\ ret' = LoginResult(username, password, FALSE, "Invalid username or password")
            /\ UNCHANGED <<users, sessions>>
     ELSE IF users[username].accountLocked
       THEN /\ logs' = Append(logs, logSecurityEvent(username))
            /\ ret' = LoginResult(username, password, FALSE, "Account is locked")
            /\ UNCHANGED <<users, sessions>>
     ELSE IF ~validateCredentials(username, password)
       THEN /\ users' = [users EXCEPT ![username] = handleFailedLogin(@)]
            /\ logs' = Append(logs, logLoginAttempt(username, FALSE))
            /\ ret' = LoginResult(username, password, FALSE, "Invalid username or password")
            /\ UNCHANGED sessions
     ELSE /\ users' = [users EXCEPT ![username] = handleSuccessfulLogin(@)]
          /\ \E sessionId \in SessionIds :
               sessions' = createSession(sessions, sessionId, MockUsers[username].userId)
          /\ logs' = Append(logs, logLoginAttempt(username, TRUE))
          /\ ret' = LoginResult(username, password, TRUE, "Login successful")
  /\ UNCHANGED notFacade

logout(sessionId) ==
  /\ Len(logs) < MaxLogs
  /\ IF \E i \in 1..Len(sessions) : sessions[i].sessionId = sessionId
       THEN /\ logs' = Append(logs, logLogout("john_doe"))
            /\ sessions' = SelectSeq(sessions, LAMBDA x : x.sessionId # sessionId)
            /\ ret' = [fn |-> "logout", sessionId |-> sessionId, result |-> TRUE]
       ELSE /\ ret' = [fn |-> "logout", sessionId |-> sessionId, result |-> FALSE]
            /\ UNCHANGED <<logs, sessions>>
  /\ UNCHANGED users
  /\ UNCHANGED notFacade

Passwords == { <<"p", "1">>, <<"s", "4">>, <<"w">> }

NextFacade ==
  \/ \E username \in {"john_doe", "jane_smith", "nobody"}, password \in Passwords :
       login(username, password)
  \/ \E sessionId \in SessionIds : logout(sessionId)

SpecFacade == Init /\ [][NextFacade]_vars

(* ------------------------- static functions ----------------------------- *)
\* TimeUtils.doTimeRangesOverlap called with four times of the grid
callDoTimeRangesOverlap(start1, end1, start2, end2) ==
  /\ ret' = [ fn |-> "doTimeRangesOverlap",
              start1 |-> start1, end1 |-> end1, start2 |-> start2, end2 |-> end2,
              result |-> doTimeRangesOverlap(start1, end1, start2, end2) ]
  /\ UNCHANGED <<managerVars, factoryVars, singletonVars, moduleVars, facadeVars>>

NextTimeUtils ==
  \E start1, end1, start2, end2 \in GoodTimes :
    callDoTimeRangesOverlap(start1, end1, start2, end2)

SpecTimeUtils == Init /\ [][NextTimeUtils]_vars

(* ============================== claims ================================== *)
\* What the claims mean by their words, stated without the code's operators:
\* a grid time is its minute of the day, two intervals overlap when some
\* minute lies in both [start, end) ranges.
WellFormed(t) ==
  /\ t.description \in {"A", "a", "B"}
  /\ t.startTime \in GoodTimes
  /\ t.endTime \in GoodTimes
  /\ MinuteOf(t.startTime) < MinuteOf(t.endTime)

ShareMinute(a, b) ==
  LET from == MinuteOf(b.startTime)
      upto == MinuteOf(b.endTime)
  IN \E x \in MinuteOf(a.startTime)..(MinuteOf(a.endTime) - 1) :
       from <= x /\ x < upto

Touch(a, b) ==
  \/ MinuteOf(a.startTime) = MinuteOf(b.endTime)
  \/ MinuteOf(a.endTime) = MinuteOf(b.startTime)

OnGrid(m) ==
  \A i \in 1..Len(m) : m[i].startTime \in GoodTimes /\ m[i].endTime \in GoodTimes

PairwiseDisjoint(m) ==
  \A i, j \in 1..Len(m) : i # j => ~ShareMinute(m[i], m[j])

Events(evs) == { evs[i] : i \in 1..Len(evs) }

\* the changeset applied to a copy of the task, field by field
Edited(t, u) == [f \in DOMAIN t |-> IF f \in DOMAIN u THEN u[f] ELSE t[f]]

\* C1: in every state reachable from the empty schedule by addTask,
\* updateTask, removeTask, markTaskCompleted and clearAllTasks, successful or
\* failing, no two distinct stored tasks have overlapping [start, end) intervals.
C1_NoTwoStoredTasksOverlap == OnGrid(tasks) /\ PairwiseDisjoint(tasks)

\* two tasks are stored, and the call just made was refused for a conflict
C1_Witness ==
  /\ Len(tasks) = 2
  /\ outcome = "TaskConflictError"
  /\ Touch(tasks[1], tasks[2])

\* C2 (as claimed): whenever the task passed to addTask overlaps a stored
\* task, addTask raises TaskConflictError and leaves the schedule as it was.
C2_OverlappingAddIsRefused ==
  \A t \in TaskInputs :
    (WellFormed(t) /\ \E i \in 1..Len(tasks) : ShareMinute(t, tasks[i]))
      => LET r == addTaskRun(tasks, t)
         IN r.outcome = "TaskConflictError" /\ r.tasks = tasks

\* C3 (as claimed): after a successful importFromJSON the stored tasks are
\* pairwise non-overlapping.
C3_ImportedTasksDisjoint ==
  (op = "importFromJSON" /\ outcome = "ok") => PairwiseDisjoint(tasks)

\* C4 (as claimed): an importFromJSON that fails leaves the schedule holding
\* exactly the tasks it held before the call.
C4_FailedImportKeepsSchedule ==
  [][(op' = "importFromJSON" /\ outcome' # "ok") => tasks' = tasks]_vars

\* C5: when updateTask would make the edited task overlap another stored task,
\* it publishes TASK_UPDATE_FAILED, raises TaskConflictError and leaves every
\* stored task unchanged in every field.
C5_ConflictingUpdateChangesNothing ==
  \A i \in 1..Len(tasks), u \in ChangeSets, now \in Clock :
    LET e == Edited(tasks[i], u)
        r == updateTaskRun(tasks, tasks[i].id, u, now)
    IN (WellFormed(e) /\ \E j \in 1..Len(tasks) : j # i /\ ShareMinute(e, tasks[j]))
         => /\ r.published = <<"TASK_UPDATE_FAILED">>
            /\ r.outcome = "TaskConflictError"
            /\ r.tasks = tasks

\* an update has just been refused for a conflict with the other stored task
C5_Witness ==
  /\ op = "updateTask"
  /\ outcome = "TaskConflictError"
  /\ published = <<"TASK_UPDATE_FAILED">>
  /\ Len(tasks) = 2

\* C6 (as claimed): writing to a Task object the caller holds (the one passed
\* to addTask, or one returned by a read) changes no stored task.
C6_CallerWritesDoNotReachStore ==
  [][op' = "callerWrites" => tasks' = tasks]_vars

\* C7: addTask raises TaskConflictError exactly when it published
\* TASK_CONFLICT in that call, updateTask exactly when it published
\* TASK_UPDATE_FAILED; the event is out when the error reaches the caller.
C7_ConflictErrorIffConflictEvent ==
  /\ op = "addTask" =>
       (outcome = "TaskConflictError" <=> "TASK_CONFLICT" \in Events(published))
  /\ op = "updateTask" =>
       (outcome = "TaskConflictError" <=> "TASK_UPDATE_FAILED" \in Events(published))
  /\ op \notin {"addTask", "updateTask"} =>
       /\ outcome # "TaskConflictError"
       /\ Events(published) \cap {"TASK_CONFLICT", "TASK_UPDATE_FAILED"} = {}

\* an addTask has just raised TaskConflictError, TASK_CONFLICT published first
C7_Witness ==
  /\ op = "addTask"
  /\ outcome = "TaskConflictError"
  /\ published # <<>>
  /\ published[1] = "TASK_CONFLICT"
  /\ conflict \in MapKeys(tasks)

\* C8 (as claimed): each addTask call publishes exactly one event: TASK_ADDED
\* when the task is stored, TASK_CONFLICT when it conflicts, TASK_ADD_FAILED
\* when it fails structural validation.
C8_OneEventPerAdd ==
  op = "addTask" =>
    published = IF outcome = "ok" THEN <<"TASK_ADDED">>
                ELSE IF outcome = "TaskConflictError" THEN <<"TASK_CONFLICT">>
                ELSE <<"TASK_ADD_FAILED">>

\* C8 (amended): an addTask that returns publishes TASK_ADDED alone, one that
\* raises TaskConflictError publishes TASK_CONFLICT and then TASK_ADD_FAILED,
\* one that raises any other error publishes TASK_ADD_FAILED alone.
C8_EventsPerAddOutcome ==
  op = "addTask" =>
    published = IF outcome = "ok" THEN <<"TASK_ADDED">>
                ELSE IF outcome = "TaskConflictError"
                  THEN <<"TASK_CONFLICT", "TASK_ADD_FAILED">>
                ELSE <<"TASK_ADD_FAILED">>

\* an addTask has just been refused for a conflict, with both events out
C8_Witness ==
  /\ op = "addTask"
  /\ outcome = "TaskConflictError"
  /\ Len(published) = 2

\* C9: adding a well-formed task that touches a stored task at a boundary and
\* overlaps no other stored task succeeds: it is stored, TASK_ADDED is published.
C9_BoundaryTouchIsAccepted ==
  \A t \in TaskInputs :
    (/\ WellFormed(t)
     /\ \E i \in 1..Len(tasks) :
          /\ Touch(t, tasks[i])
          /\ \A j \in 1..Len(tasks) : j # i => ~ShareMinute(t, tasks[j]))
      => LET r == addTaskRun(tasks, t)
         IN /\ r.outcome = "ok"
            /\ r.published = <<"TASK_ADDED">>
            /\ \E k \in 1..Len(r.tasks) : r.tasks[k] = t

\* the task added last was stored next to one it touches at a boundary
C9_Witness ==
  /\ op = "addTask"
  /\ outcome = "ok"
  /\ published = <<"TASK_ADDED">>
  /\ Len(tasks) = 2
  /\ MinuteOf(tasks[1].endTime) = MinuteOf(tasks[2].startTime)

\* C10: the conflicting task a failed addTask or updateTask names is the first
\* stored task, in insertion order, with another id whose interval overlaps
\* the candidate's; no conflict is reported exactly when there is no such task.
FirstOverlapped(m, cand) ==
  LET hit == { i \in 1..Len(m) : m[i].id # cand.id /\ ShareMinute(cand, m[i]) }
  IN IF hit = {} THEN NoId
     ELSE m[CHOOSE i \in hit : \A j \in hit : i <= j].id

C10_FirstConflictIsNamed ==
  /\ \A t \in TaskInputs :
       WellFormed(t) =>
         LET r == addTaskRun(tasks, t)
         IN /\ r.conflict = FirstOverlapped(tasks, t)
            /\ r.outcome = "TaskConflictError" <=> FirstOverlapped(tasks, t) # NoId
  /\ \A i \in 1..Len(tasks), u \in ChangeSets, now \in Clock :
       WellFormed(Edited(tasks[i], u)) =>
         LET r == updateTaskRun(tasks, tasks[i].id, u, now)
             c == FirstOverlapped(tasks, Edited(tasks[i], u))
         IN /\ r.conflict = c
            /\ r.outcome = "TaskConflictError" <=> c # NoId

\* an addTask was refused and the task it names is the second stored one: the
\* scan passed over the first
C10_Witness ==
  /\ op = "addTask"
  /\ outcome = "TaskConflictError"
  /\ Len(tasks) = 2
  /\ conflict = tasks[2].id

\* C11: an updateTask whose changeset shrinks or shifts the task's interval so
\* that it meets no other stored task succeeds, also when the new interval
\* overlaps the task's own old one: the stored task keeps its id and position,
\* carries the new values, TASK_UPDATED is published and getAllTasks shows it.
C11_OwnIntervalIsNoConflict ==
  \A i \in 1..Len(tasks), u \in ChangeSets, now \in Clock :
    LET e == Edited(tasks[i], u)
        r == updateTaskRun(tasks, tasks[i].id, u, now)
    IN (WellFormed(e) /\ \A j \in 1..Len(tasks) : j # i => ~ShareMinute(e, tasks[j]))
         => /\ r.outcome = "ok"
            /\ r.published = <<"TASK_UPDATED">>
            /\ r.tasks = [tasks EXCEPT ![i] = [e EXCEPT !.updatedAt = now]]
            /\ \E k \in 1..Len(getAllTasksRun(r.tasks)) :
                 /\ getAllTasksRun(r.tasks)[k].id = tasks[i].id
                 /\ getAllTasksRun(r.tasks)[k].startTime = e.startTime
                 /\ getAllTasksRun(r.tasks)[k].endTime = e.endTime

\* an update has just succeeded next to another stored task, and the task it
\* changed can be shifted once more onto an interval that overlaps its own
C11_Witness ==
  /\ op = "updateTask"
  /\ outcome = "ok"
  /\ published = <<"TASK_UPDATED">>
  /\ Len(tasks) = 2
  /\ \E i \in 1..Len(tasks), u \in ChangeSets, now \in Clock :
       LET e == Edited(tasks[i], u)
       IN /\ tasks[i].updatedAt # UndefinedDate
          /\ WellFormed(e)
          /\ <<e.startTime, e.endTime>> # <<tasks[i].startTime, tasks[i].endTime>>
          /\ ShareMinute(e, tasks[i])
          /\ updateTaskRun(tasks, tasks[i].id, u, now).outcome = "ok"

\* C12: updateTask with an id that is not in the schedule raises
\* TaskNotFoundError, changes no stored task and publishes no event.
C12_UnknownIdIsNotFound ==
  \A id \in IDs, u \in ChangeSets, now \in Clock :
    (\A i \in 1..Len(tasks) : tasks[i].id # id)
      => LET r == updateTaskRun(tasks, id, u, now)
         IN /\ r.outcome = "TaskNotFoundError"
            /\ r.tasks = tasks
            /\ r.published = <<>>

\* an updateTask with an unknown id has just failed on a schedule that holds tasks
C12_Witness ==
  /\ op = "updateTask"
  /\ outcome = "TaskNotFoundError"
  /\ published = <<>>
  /\ tasks # <<>>

\* C13: in every state reachable through addTask, updateTask, removeTask,
\* markTaskCompleted, clearAllTasks and importFromJSON every stored task starts
\* strictly before it ends; an addTask, an updateTask and an import record
\* whose bounds come out equal or inverted are refused and nothing of them is
\* stored.
BoundsInOrder(t) ==
  /\ t.startTime \in GoodTimes
  /\ t.endTime \in GoodTimes
  /\ MinuteOf(t.startTime) < MinuteOf(t.endTime)

BadBounds(t) ==
  /\ t.description \in {"A", "a", "B"}
  /\ t.startTime \in GoodTimes
  /\ t.endTime \in GoodTimes
  /\ MinuteOf(t.startTime) >= MinuteOf(t.endTime)

C13_StartStrictlyBeforeEnd ==
  /\ \A i \in 1..Len(tasks) : BoundsInOrder(tasks[i])
  /\ \A t \in TaskInputs :
       BadBounds(t) =>
         LET r == addTaskRun(tasks, t)
         IN r.outcome = "InvalidTimeRangeError" /\ r.tasks = tasks
  /\ \A i \in 1..Len(tasks), u \in ChangeSets, now \in Clock :
       BadBounds(Edited(tasks[i], u)) =>
         LET r == updateTaskRun(tasks, tasks[i].id, u, now)
         IN r.outcome = "InvalidTimeRangeError" /\ r.tasks = tasks
  /\ \A json \in JsonInputs :
       (\E k \in 1..Len(json.items) : BadBounds(json.items[k]))
         => LET r == importFromJSONRun(tasks, json)
            IN /\ r.outcome # "ok"
               /\ \A i \in 1..Len(r.tasks) : BoundsInOrder(r.tasks[i])

\* an import has just been refused for a record whose bounds are not in order
C13_Witness ==
  /\ op = "importFromJSON"
  /\ outcome = "InvalidTimeRangeError"
  /\ tasks # <<>>

\* descriptions that are equal when letter case is ignored
CaseFold(d) == IF d = "A" THEN "a" ELSE IF d = "B" THEN "b" ELSE d

Matches(m, d) == { i \in 1..Len(m) : CaseFold(m[i].description) = CaseFold(d) }

\* C14: removeTask with a description that matches no stored task returns
\* false without raising, publishes no event and leaves the schedule unchanged.
C14_RemoveOfUnknownReturnsFalse ==
  \A d \in Lookups :
    Matches(tasks, d) = {}
      => LET r == removeTaskRun(tasks, d)
         IN /\ r.outcome = "false"
            /\ r.published = <<>>
            /\ r.tasks = tasks

\* a removeTask has just returned false on a schedule that holds tasks
C14_Witness ==
  /\ op = "removeTask"
  /\ outcome = "false"
  /\ published = <<>>
  /\ tasks # <<>>

\* C15: removeTask with a description that equals, ignoring letter case, the
\* description of a stored task deletes exactly the first match in insertion
\* order, leaves every other task stored and unchanged (also one with the same
\* description), returns true and publishes TASK_REMOVED once.
C15_RemoveDeletesFirstMatch ==
  \A d \in Lookups :
    Matches(tasks, d) # {}
      => LET first == CHOOSE i \in Matches(tasks, d) :
                        \A j \in Matches(tasks, d) : i <= j
             r == removeTaskRun(tasks, d)
         IN /\ r.outcome = "true"
            /\ r.published = <<"TASK_REMOVED">>
            /\ r.tasks = SubSeq(tasks, 1, first - 1)
                           \o SubSeq(tasks, first + 1, Len(tasks))

\* a removeTask has just returned true and left the second task with that
\* description (in the other letter case) in the schedule
C15_Witness ==
  /\ op = "removeTask"
  /\ outcome = "true"
  /\ published = <<"TASK_REMOVED">>
  /\ Len(tasks) = 1
  /\ tasks[1].description = "a"
  /\ Matches(tasks, "A") = {1}

\* C16 (as claimed): each markTaskCompleted call flips the completed flag of
\* the matched task, pending to completed and completed to pending, and
\* publishes TASK_COMPLETED.
C16_MarkTogglesCompletion ==
  \A d \in Lookups, now \in Clock :
    Matches(tasks, d) # {}
      => LET first == CHOOSE i \in Matches(tasks, d) :
                        \A j \in Matches(tasks, d) : i <= j
             r == markTaskCompletedRun(tasks, d, now)
         IN /\ r.published = <<"TASK_COMPLETED">>
            /\ r.tasks[first].completed = ~tasks[first].completed

Attached == { o \in Observers : life[o] \in {"in", "again"} }

Interested(o, event) ==
  \/ o \in {"O1", "O2"}
  \/ o = "O3" /\ event \notin {"TASK_REMOVED", "TASK_COMPLETED", "SCHEDULE_CLEARED"}

CallsOf(o, event) == { k \in 1..Len(delivered) : delivered[k] = Call(o, event) }

\* C18: notify invokes the interested attached observers in attachment order:
\* when a was attached before b, a's handler runs before b's for every event,
\* and an observer that was detached and attached again comes after all that
\* stayed attached; every call happens within the publishing operation, the
\* calls for an earlier event before those for a later one.
C18_DispatchInAttachmentOrder ==
  /\ \A p \in before, e \in Events(published) :
       \A i \in CallsOf(p[1], e), j \in CallsOf(p[2], e) : i < j
  /\ \A i, j \in 1..Len(delivered) :
       i < j => \E x, y \in 1..Len(published) :
                  /\ x <= y
                  /\ published[x] = delivered[i].event
                  /\ published[y] = delivered[j].event

\* O1 was detached and attached again while O2 stayed: O2's handler has run
\* first and O1's second for the same event
C18_Witness ==
  /\ life["O1"] = "again"
  /\ life["O2"] = "in"
  /\ Len(delivered) >= 2
  /\ delivered[1].observer = "O2"
  /\ delivered[2].observer = "O1"
  /\ delivered[1].event = delivered[2].event

\* C19: an observer whose handler or interest predicate throws does not stop
\* the dispatch: every attached, interested observer is invoked with each
\* published event, and no exception leaves notify.
C19_FailingObserverDoesNotStopDispatch ==
  /\ outcome # "ObserverError"
  /\ \A e \in Events(published), o \in Attached :
       Interested(o, e) => CallsOf(o, e) # {}

\* the handler of O2 has thrown and the observer behind it was invoked with
\* the same event
C19_Witness ==
  \E k \in 1..Len(delivered) :
    /\ k < Len(delivered)
    /\ delivered[k].observer = "O2"
    /\ delivered[k + 1].observer # "O2"
    /\ delivered[k + 1].event = delivered[k].event

\* C20: an observer that throws while handling TASK_ADDED, TASK_UPDATED,
\* TASK_REMOVED or TASK_COMPLETED never alters the operation: the caller gets
\* the success, the schedule and the events it would get with no observer
\* attached, and no failure event is published.
FailedOnSuccessEvent(calls) ==
  \E k \in 1..Len(calls) :
    /\ calls[k].observer = "O2"
    /\ calls[k].event \in {"TASK_ADDED", "TASK_UPDATED", "TASK_REMOVED", "TASK_COMPLETED"}

SameAsUnobserved(r) ==
  /\ tasks' = r.tasks
  /\ outcome' = r.outcome
  /\ published' = r.published

C20_ObserverFailureKeepsOutcome ==
  [][FailedOnSuccessEvent(delivered') =>
       /\ outcome' \in {"ok", "true"}
       /\ Events(published') \cap {"TASK_ADD_FAILED", "TASK_UPDATE_FAILED"} = {}
       /\ \/ /\ op' = "addTask"
             /\ \E t \in ObserverTaskInputs : SameAsUnobserved(addTaskRun(tasks, t))
          \/ /\ op' = "updateTask"
             /\ \E u \in ObserverChangeSets, now \in Clock :
                  SameAsUnobserved(updateTaskRun(tasks, "T2", u, now))
          \/ /\ op' = "removeTask"
             /\ SameAsUnobserved(removeTaskRun(tasks, DescA))
          \/ /\ op' = "markTaskCompleted"
             /\ \E now \in Clock :
                  SameAsUnobserved(markTaskCompletedRun(tasks, DescA, now))]_vars

\* O2's handler has thrown on TASK_ADDED and the addTask has returned normally
\* with the task stored
C20_Witness ==
  /\ op = "addTask"
  /\ outcome = "ok"
  /\ published = <<"TASK_ADDED">>
  /\ CallsOf("O2", "TASK_ADDED") # {}
  /\ tasks # <<>>

\* C21 (as claimed): every observer that is attached when a publish starts and
\* is interested in the event receives it exactly once, also when the handler
\* of another observer detaches an observer while the dispatch is in progress.
C21_EachAttachedObserverGetsEventOnce ==
  \A e \in Events(published), o \in Attached :
    Interested(o, e) => Cardinality(CallsOf(o, e)) = 1

\* an event that reached observer o within the last operation
Received(o, calls) == { calls[k].event : k \in { i \in 1..Len(calls) : calls[i].observer = o } }

\* C22: an observer that detach has removed is not invoked by any later
\* operation until it is attached again, while the observers that are still
\* attached are invoked with every event they are interested in; detach
\* returns true exactly when the observer was attached and then removes it and
\* nothing else, and detach of an observer that is not attached returns false
\* and leaves the list as it was.
C22_DetachedObserverIsNotInvoked ==
  [][ /\ \A k \in 1..Len(delivered') :
           life[delivered'[k].observer] \in {"in", "again"}
      /\ \A e \in Events(published'), o \in Attached :
           Interested(o, e) => e \in Received(o, delivered')
      /\ op' = "detach" =>
           \/ /\ outcome' = "false"
              /\ observers' = observers
              /\ life' = life
           \/ /\ outcome' = "true"
              /\ \E o \in Attached :
                   /\ life' = [life EXCEPT ![o] = "out"]
                   /\ \E k \in 1..Len(observers) : observers[k] = o
                   /\ observers' = SelectSeq(observers, LAMBDA x : x # o)
    ]_vars

\* O1 was detached and O2 stayed: the event of the operation just made went to
\* O2 and not to O1
C22_Witness ==
  /\ life["O1"] = "out"
  /\ life["O2"] = "in"
  /\ published # <<>>
  /\ Received("O2", delivered) = Events(published)
  /\ Received("O1", delivered) = {}

NoDuplicates(array) == \A i, j \in 1..Len(array) : array[i] = array[j] => i = j

\* C23: the observers array never holds an observer twice; attach of an
\* observer that is attached returns false and leaves the array as it was,
\* attach of any other observer returns true and puts it at the end, behind
\* the others in their old order.
C23_NoObserverAttachedTwice ==
  [][ /\ NoDuplicates(observers')
      /\ op' = "attach" =>
           \/ /\ outcome' = "false"
              /\ observers' = observers
              /\ life' = life
           \/ /\ outcome' = "true"
              /\ life' # life
              /\ \E o \in AllObservers :
                   /\ \A k \in 1..Len(observers) : observers[k] # o
                   /\ observers' = Append(observers, o)
    ]_vars

\* attach has just refused an observer that is in the array with another one
C23_Witness ==
  /\ op = "attach"
  /\ outcome = "false"
  /\ Len(observers) = 2
  /\ life["O1"] = "again"

\* C24: O3, whose isInterestedIn returns false for TASK_COMPLETED and
\* SCHEDULE_CLEARED, is not invoked for these events, and the attached
\* observers that declare no isInterestedIn (O1, O2) are invoked with every
\* event that is published.
C24_UninterestedObserverIsSkipped ==
  /\ Received("O3", delivered) \cap {"TASK_COMPLETED", "SCHEDULE_CLEARED"} = {}
  /\ \A o \in Attached \cap {"O1", "O2"} : Events(published) \subseteq Received(o, delivered)

\* O3 stands before O1 in the array; TASK_COMPLETED went to O1 only
C24_Witness ==
  /\ observers = <<"O3", "O1">>
  /\ published = <<"TASK_COMPLETED">>
  /\ delivered = <<Call("O1", "TASK_COMPLETED")>>

Ids(m) == { m[i].id : i \in 1..Len(m) }

Stores(m) == { m[i] : i \in 1..Len(m) }

\* C25: what an observer finds in the Map when its handler runs is what the
\* call leaves behind. For TASK_ADDED the new task is stored, for TASK_REMOVED
\* one stored task is gone, for TASK_UPDATED the changeset is applied to the
\* task, for TASK_COMPLETED the task is completed, for SCHEDULE_CLEARED the
\* Map is empty, for SCHEDULE_IMPORTED the Map holds the imported records; for
\* TASK_CONFLICT and TASK_UPDATE_FAILED the Map is as it was before the call.
C25_ObserversSeeCommittedState ==
  [][ \A k \in 1..Len(delivered') :
        /\ seen'[k] = tasks'
        /\ delivered'[k].event \in {"TASK_CONFLICT", "TASK_UPDATE_FAILED"}
             => seen'[k] = tasks
        /\ delivered'[k].event = "TASK_ADDED"
             => \E t \in ObserverTaskInputs :
                  /\ t \in Stores(seen'[k])
                  /\ Stores(seen'[k]) \ {t} = { x \in Stores(tasks) : x.id # t.id }
        /\ delivered'[k].event = "TASK_REMOVED"
             => \E i \in 1..Len(tasks) :
                  /\ tasks[i].id \notin Ids(seen'[k])
                  /\ Stores(seen'[k]) = Stores(tasks) \ {tasks[i]}
        /\ delivered'[k].event = "TASK_UPDATED"
             => \E i \in 1..Len(tasks), u \in ObserverChangeSets :
                  /\ Len(seen'[k]) = Len(tasks)
                  /\ \A f \in DOMAIN u : seen'[k][i][f] = u[f]
                  /\ seen'[k][i].updatedAt # UndefinedDate
                  /\ \A j \in 1..Len(tasks) : j # i => seen'[k][j] = tasks[j]
        /\ delivered'[k].event = "TASK_COMPLETED"
             => \E i \in 1..Len(tasks) :
                  /\ Len(seen'[k]) = Len(tasks)
                  /\ seen'[k][i].completed
                  /\ \A j \in 1..Len(tasks) : j # i => seen'[k][j] = tasks[j]
        /\ delivered'[k].event = "SCHEDULE_CLEARED" => seen'[k] = <<>>
        /\ delivered'[k].event = "SCHEDULE_IMPORTED"
             => \E json \in ObserverJsonInputs :
                  Ids(seen'[k]) = { json.items[i].id : i \in 1..Len(json.items) }
    ]_vars

\* the second task has just been added while O1 listened: O1 found both tasks
C25_Witness ==
  /\ op = "addTask"
  /\ delivered = <<Call("O1", "TASK_ADDED")>>
  /\ Len(seen[1]) = 2
  /\ seen[1] = tasks

\* C26: no handler runs between the conflict scan and the write to the Map:
\* with an observer whose handler calls addTask, updateTask and removeTask,
\* the stored tasks are pairwise disjoint after every call, and so is the
\* schedule every handler finds.
C26_ReentrantCallsKeepTasksDisjoint ==
  /\ OnGrid(tasks)
  /\ PairwiseDisjoint(tasks)
  /\ \A k \in 1..Len(seen) : PairwiseDisjoint(seen[k])

\* T2 has just been moved forward while O5 listened: O5's handler called
\* addTask for the time T2 now covers and was refused
C26_Witness ==
  /\ op = "updateTask"
  /\ outcome = "ok"
  /\ delivered = << Call("O5", "TASK_UPDATED"), Call("O5", "TASK_CONFLICT"),
                    Call("O5", "TASK_ADD_FAILED") >>
  /\ Ids(tasks) = {"T2"}

\* C27: an importFromJSON that succeeds leaves exactly the imported records
\* in the Map, whatever was stored before: the stored ids are the ids of the
\* records, and SCHEDULE_IMPORTED is published once and alone.
C27_ImportReplacesSchedule ==
  /\ \A json \in JsonInputs :
       importFromJSONRun(tasks, json).outcome = "ok"
         => /\ Ids(importFromJSONRun(tasks, json).tasks)
                 = { json.items[i].id : i \in 1..Len(json.items) }
            /\ importFromJSONRun(tasks, json).published = <<"SCHEDULE_IMPORTED">>
  /\ (op = "importFromJSON" /\ outcome = "ok") => published = <<"SCHEDULE_IMPORTED">>

\* an import has left T1 and T2 in the Map, and importing one record for T2
\* now would leave T2 alone
C27_Witness ==
  /\ op = "importFromJSON"
  /\ outcome = "ok"
  /\ Ids(tasks) = {"T1", "T2"}
  /\ \E json \in JsonInputs :
       /\ importFromJSONRun(tasks, json).outcome = "ok"
       /\ Ids(importFromJSONRun(tasks, json).tasks) = {"T2"}

\* the fields of a task the round trip is to keep
Kept(t) ==
  [ id |-> t.id, description |-> t.description, startTime |-> t.startTime,
    endTime |-> t.endTime, priority |-> t.priority, completed |-> t.completed ]

RoundTrips(m) ==
  /\ ~exportToJSONThrows(m)
  /\ importFromJSONRun(<<>>, exportToJSONRun(m)).outcome = "ok"
  /\ { Kept(t) : t \in Stores(importFromJSONRun(<<>>, exportToJSONRun(m)).tasks) }
       = { Kept(t) : t \in Stores(m) }

\* C28 (as claimed): from every schedule the manager can hold, exportToJSON
\* returns a text whose import into an empty manager stores the same tasks
\* (id, description, startTime, endTime, priority, completed), and
\* exportToJSON leaves the Map and the observers as they were.
C28_ExportImportRoundTrip ==
  [][ /\ RoundTrips(tasks')
      /\ op' = "exportToJSON" => (tasks' = tasks /\ observers' = observers)
    ]_vars

\* ascending by the minute of the day of startTime
Ascending(array) ==
  \A i, j \in 1..Len(array) :
    i < j => MinuteOf(array[i].startTime) <= MinuteOf(array[j].startTime)

\* C29: what getAllTasks returns holds every stored task once and nothing
\* else, in ascending order of the start minute; the call leaves the Map and
\* the observers array as they were.
C29_GetAllTasksIsSortedPermutation ==
  [][ op' = "getAllTasks"
        => /\ Len(getAllTasksRun(tasks)) = Len(tasks)
           /\ Stores(getAllTasksRun(tasks)) = Stores(tasks)
           /\ Ascending(getAllTasksRun(tasks))
           /\ tasks' = tasks
           /\ observers' = observers
    ]_vars

\* getAllTasks was called while the Map held the later task first
C29_Witness ==
  /\ op = "getAllTasks"
  /\ Len(tasks) = 2
  /\ MinuteOf(tasks[1].startTime) > MinuteOf(tasks[2].startTime)
  /\ getAllTasksRun(tasks) = <<tasks[2], tasks[1]>>

\* the stored tasks that share a minute with [startTime, endTime)
InRange(m, startTime, endTime) ==
  { t \in Stores(m) : /\ MinuteOf(t.startTime) < MinuteOf(endTime)
                      /\ MinuteOf(startTime) < MinuteOf(t.endTime) }

C31_OverlapIsHalfOpenAndSymmetric ==
  ret.fn = "doTimeRangesOverlap"
    => /\ ret.result = (/\ MinuteOf(ret.start1) < MinuteOf(ret.end2)
                        /\ MinuteOf(ret.start2) < MinuteOf(ret.end1))
       /\ ret.result = doTimeRangesOverlap(ret.start2, ret.end2, ret.start1, ret.end1)
       /\ (ret.end1 = ret.start2 \/ ret.end2 = ret.start1) => ~ret.result

\* the call was made with a first range that ends where the second starts
C31_Witness ==
  /\ ret.fn = "doTimeRangesOverlap"
  /\ MinuteOf(ret.start1) < MinuteOf(ret.end1)
  /\ ret.end1 = ret.start2
  /\ MinuteOf(ret.start2) < MinuteOf(ret.end2)
  /\ ret.result = FALSE

\* C32 (as claimed): the ids createTask has given out are all different,
\* whatever resetCounter and setCounterValue did in between and however the
\* clock moved on.
C32_FactoryIdsAreUnique == NoDuplicates(made)

\* the kind of error the first failing check of createTask stands for, the
\* checks taken in the order description, time format, time range, priority
FirstFailure(c) ==
  IF c.description \in {"", " "} THEN "InvalidTaskDescriptionError"
  ELSE IF c.startTime \notin GoodTimes \/ c.endTime \notin GoodTimes
    THEN "InvalidTimeFormatError"
  ELSE IF MinuteOf(c.startTime) >= MinuteOf(c.endTime) THEN "InvalidTimeRangeError"
  ELSE IF c.priority \notin {"Low", "High", "high", " LOW "}
    THEN "Error: Invalid priority"
  ELSE "ok"

\* C33: createTask fails with the error of the first failing check, the
\* checks taken in the order description, time format, time range,
\* priority; when all four pass it returns a task that is not completed and
\* starts before it ends.
C33_CreateTaskChecksInOrder ==
  ret.fn = "createTask" =>
    /\ ret.outcome = FirstFailure(ret)
    /\ ret.outcome = "ok" =>
         /\ ret.task.completed = FALSE
         /\ MinuteOf(ret.task.startTime) < MinuteOf(ret.task.endTime)

C33_Witness ==
  /\ ret.fn = "createTask"
  /\ ret.description = " A"
  /\ ret.startTime = "9:00"
  /\ ret.endTime = "09:00"
  /\ ret.priority = "Urgent"
  /\ ret.outcome = "InvalidTimeFormatError"
  /\ Len(made) = 1

\* C34: every call of getInstance returns the one manager; a call after the
\* first builds no manager and leaves the tasks and the listeners as they
\* are, so what was added through one handle is there through every other.
C34_OneManager ==
  [][ /\ constructed' <= 1
      /\ \A i \in DOMAIN handles' : handles'[i] = instance'
      /\ (handles # <<>> /\ handles' # handles) =>
           /\ tasks' = tasks
           /\ observers' = observers ]_vars

C34_Witness ==
  /\ handles = <<1, 1, 1>>
  /\ Len(tasks) = 2
  /\ Len(observers) = 1

\* C35: addTask, updateTask, removeTask, markTaskCompleted, clearAllTasks and
\* importFromJSON leave the list of listeners as it is; attach, detach and
\* detachAll leave the schedule as it is and publish no event.  The
\* listeners here make no call of their own into the manager.
C35_SchedulingAndListeningApart ==
  [][ /\ op' \in {"addTask", "updateTask", "removeTask", "markTaskCompleted",
                  "clearAllTasks", "importFromJSON"} => observers' = observers
      /\ op' \in {"attach", "detach", "detachAll"} =>
           /\ tasks' = tasks
           /\ published' = <<>>
           /\ delivered' = <<>> ]_vars

C35_Witness ==
  /\ op = "importFromJSON"
  /\ Len(observers) = 2
  /\ Len(tasks) >= 1
  /\ delivered # <<>>

\* C36 (as claimed): an addTask that returns normally leaves one task more
\* in the Map than there was, and every task stored before the call is
\* stored after it, the same in every field; so too when the added task has
\* the id of a stored task.
C36_AddGrowsByOne ==
  \A t \in TaskInputs :
    LET r == addTaskRun(tasks, t)
    IN r.outcome = "ok" =>
         /\ Len(r.tasks) = Len(tasks) + 1
         /\ Stores(tasks) \subseteq Stores(r.tasks)

\* C37: an updateTask that returns normally changes the task with the given
\* id and no other, and of that task only the fields of the changeset and
\* updatedAt, so never its id or createdAt; an addTask or removeTask that
\* returns normally leaves every stored task with another id than the one it
\* adds or removes the same in every field.
C37_OneTargetPerOperation ==
  /\ \A id \in IDs, u \in ChangeSets, now \in Clock :
       LET r == updateTaskRun(tasks, id, u, now)
       IN r.outcome = "ok" =>
            /\ Len(r.tasks) = Len(tasks)
            /\ \A i \in 1..Len(tasks) :
                 IF tasks[i].id = id
                   THEN \A f \in DOMAIN tasks[i] \ (DOMAIN u \cup {"updatedAt"}) :
                          r.tasks[i][f] = tasks[i][f]
                   ELSE r.tasks[i] = tasks[i]
  /\ \A t \in TaskInputs :
       LET r == addTaskRun(tasks, t)
       IN r.outcome = "ok" =>
            \A i \in 1..Len(tasks) :
              tasks[i].id # t.id => tasks[i] \in Stores(r.tasks)
  /\ \A d \in Lookups :
       LET r == removeTaskRun(tasks, d)
       IN r.outcome = "true" =>
            \E k \in 1..Len(tasks) :
              /\ Ids(r.tasks) = Ids(tasks) \ {tasks[k].id}
              /\ \A i \in 1..Len(tasks) : i # k => tasks[i] \in Stores(r.tasks)

\* an update has just gone through while another task is stored, one of the
\* two completed
C37_Witness ==
  /\ op = "updateTask"
  /\ outcome = "ok"
  /\ Len(tasks) = 2
  /\ \E i \in 1..2 : tasks[i].completed
  /\ \E id \in IDs, u \in ChangeSets : updateTaskRun(tasks, id, u, 1).outcome = "ok"

\* how often the event is among those published
CountOf(evs, e) == Cardinality({ k \in 1..Len(evs) : evs[k] = e })

\* C38: an addTask that raises an error publishes TASK_ADD_FAILED once, as
\* the last event of the call, and the caller gets the error that was raised
\* inside: the validator's, or TaskConflictError when a stored task overlaps;
\* an addTask that returns normally does not publish TASK_ADD_FAILED.
C38_FailedAddPublishesFailureLast ==
  \A t \in TaskInputs :
    LET r == addTaskRun(tasks, t)
    IN IF r.outcome = "ok"
         THEN CountOf(r.published, "TASK_ADD_FAILED") = 0
         ELSE /\ r.published # <<>>
              /\ r.published[Len(r.published)] = "TASK_ADD_FAILED"
              /\ CountOf(r.published, "TASK_ADD_FAILED") = 1
              /\ r.outcome = IF validateTask(t) # NoError THEN validateTask(t)
                              ELSE "TaskConflictError"
              /\ r.outcome = "TaskConflictError" =>
                   \E i \in 1..Len(tasks) : ShareMinute(t, tasks[i])

\* an addTask has just been refused for a conflict, and from here one call
\* fails validation, one is refused and one goes through
C38_Witness ==
  /\ op = "addTask"
  /\ outcome = "TaskConflictError"
  /\ published = <<"TASK_CONFLICT", "TASK_ADD_FAILED">>
  /\ \E t \in TaskInputs : addTaskRun(tasks, t).outcome = "ok"
  /\ \E t \in TaskInputs : addTaskRun(tasks, t).outcome = "TaskConflictError"
  /\ \E t \in TaskInputs :
       addTaskRun(tasks, t).outcome \notin {"ok", "TaskConflictError"}

\* C39 (as claimed): whatever calls of start, pause, resume, complete, fail,
\* reset, completeLesson and takeAssessment are made, a module in COMPLETED
\* has a passed assessment, and the state before COMPLETED is always
\* UNDER_ASSESSMENT.
C39_CompletedOnlyWhenPassed ==
  /\ state = "COMPLETED" => assessment.isPassed
  /\ \A k \in DOMAIN stateHistory :
       stateHistory[k] = "COMPLETED" =>
         k > 1 /\ stateHistory[k - 1] = "UNDER_ASSESSMENT"

\* the failed password attempts of the user that the log ends with: those
\* since the user's last successful login
RECURSIVE Streak(_, _)
Streak(entries, u) ==
  IF entries = <<>> THEN 0
  ELSE LET last == entries[Len(entries)]
           rest == SubSeq(entries, 1, Len(entries) - 1)
       IN IF last.kind = "LOGIN" /\ last.username = u
            THEN IF last.success THEN 0 ELSE 1 + Streak(rest, u)
            ELSE Streak(rest, u)

\* C40: failedLoginAttempts never exceeds 3 and counts the failed password
\* attempts since the last successful login; the account is locked from the
\* step that records the third such attempt in a row, and by no other step;
\* a login for a locked account does not succeed, whatever the password.
C40_LockAfterThreeFailures ==
  [][ \A u \in DOMAIN users :
        /\ users'[u].failedLoginAttempts <= 3
        /\ users'[u].failedLoginAttempts = Streak(logs', u)
        /\ users'[u].accountLocked <=> Streak(logs', u) = 3
        /\ (~users[u].accountLocked /\ users'[u].accountLocked) =>
             /\ Streak(logs, u) = 2
             /\ ret'.fn = "login" /\ ret'.username = u
             /\ ~validateCredentials(u, ret'.password)
        /\ (users[u].accountLocked /\ logs' # logs
              /\ ret'.fn = "login" /\ ret'.username = u) =>
             /\ ~ret'.isSuccess
             /\ users'[u].accountLocked ]_vars

\* a locked account has just been tried with its own password
C40_Witness ==
  /\ users["jane_smith"].accountLocked
  /\ ret.fn = "login"
  /\ ret.username = "jane_smith"
  /\ ret.password = <<"s", "4">>
  /\ ~ret.isSuccess
  /\ \E k \in DOMAIN logs : logs[k] = logLoginAttempt("jane_smith", TRUE)

====
